---- MODULE Spec2Model ----
(***************************************************************************)
(* A model of the MiniC compiler pipeline (src/MiniC): precedence-climbing *)
(* expression parser, semantic analyzer, tree-walking interpreter, TAC     *)
(* generator, TAC optimizer, stack pseudo-assembly generator.              *)
(*                                                                         *)
(* Python strings are TLA+ strings; None and the empty string are both     *)
(* the empty string "" (the code only ever tests them for truthiness).     *)
(* Python lists are sequences, dicts are functions, sets are sets.         *)
(***************************************************************************)
EXTENDS Integers, Sequences, FiniteSets, TLC

VARIABLES
    pc,        \* position in the run: which stage has been reached
    input,     \* descriptor of the chosen input (expression shape or program)
    tokens,    \* Parser.tokens
    parsed,    \* result of Parser.parse_expression
    program,   \* the Program AST handed to the analyzer and the back end
    sem,       \* outcome of SemanticAnalyzer.analyze
    tac,       \* IRGenerator.generate's instruction list
    opt,       \* TACOptimizer.optimize's instruction list
    asm,       \* CodeGenerator.generate's lines
    interp,    \* outcome of Interpreter.run
    machine,   \* the stack machine executing asm
    compat,    \* the last application of type_compatible
    pass,      \* the last application of one pass or method on its own
    irgen      \* the IRGenerator after generate: counters and symbol table

vars ==
    <<pc, input, tokens, parsed, program, sem, tac, opt, asm, interp, machine,
      compat, pass, irgen>>

(***************************************************************************)
(* Bounds of the model.                                                    *)
(***************************************************************************)
MaxLit == 1
MaxParams == 2
Fuel == 5
MaxSteps == 40

None == ""

(***************************************************************************)
(* Text: str(int), int(str), str.isdigit, str.split(' ', 1), str.replace.   *)
(***************************************************************************)
DigitChars == "0123456789"

CharAt(s, i) == SubSeq(s, i, i)

IsDigitChar(c) == \E d \in 1..10 : CharAt(DigitChars, d) = c

DigitVal(c) == (CHOOSE d \in 1..10 : CharAt(DigitChars, d) = c) - 1

\* str.isdigit(): non-empty and every character a decimal digit
isdigit(s) == Len(s) > 0 /\ \A i \in 1..Len(s) : IsDigitChar(CharAt(s, i))

RECURSIVE NatToStr(_)
NatToStr(n) ==
    IF n < 10 THEN CharAt(DigitChars, n + 1)
    ELSE NatToStr(n \div 10) \o CharAt(DigitChars, (n % 10) + 1)

\* str(n) for a Python int
IntToStr(n) == IF n < 0 THEN "-" \o NatToStr(0 - n) ELSE NatToStr(n)

RECURSIVE DigitsToNat(_, _)
DigitsToNat(s, acc) ==
    IF Len(s) = 0 THEN acc
    ELSE DigitsToNat(Tail(s), acc * 10 + DigitVal(Head(s)))

\* int(s) for a digit string
StrToInt(s) == DigitsToNat(s, 0)

\* index of the first occurrence of sub in s at or after position i, 0 if none
RECURSIVE FindFrom(_, _, _)
FindFrom(s, sub, i) ==
    IF i + Len(sub) - 1 > Len(s) THEN 0
    ELSE IF SubSeq(s, i, i + Len(sub) - 1) = sub THEN i
    ELSE FindFrom(s, sub, i + 1)

\* sub in s
Contains(s, sub) == FindFrom(s, sub, 1) # 0

\* s.split(' ', 1)
Split1(s) ==
    LET i == FindFrom(s, " ", 1) IN
    IF i = 0 THEN <<s>>
    ELSE <<SubSeq(s, 1, i - 1), SubSeq(s, i + 1, Len(s))>>

\* s.replace(old, new): every non-overlapping occurrence, left to right
RECURSIVE Replace(_, _, _)
Replace(s, old, new) ==
    LET i == FindFrom(s, old, 1) IN
    IF i = 0 THEN s
    ELSE SubSeq(s, 1, i - 1) \o new
         \o Replace(SubSeq(s, i + Len(old), Len(s)), old, new)

(***************************************************************************)
(* ast_nodes.py: one record per dataclass, tagged by k.                    *)
(***************************************************************************)
NoNode == [k |-> "None"]

Program(functions) == [k |-> "Program", functions |-> functions]

Function(ret_type, name, params, body) ==
    [k |-> "Function", ret_type |-> ret_type, name |-> name,
     params |-> params, body |-> body]

Block(statements) == [k |-> "Block", statements |-> statements]

VarDecl(var_type, name, init) ==
    [k |-> "VarDecl", var_type |-> var_type, name |-> name, init |-> init]

Assignment(target, value) ==
    [k |-> "Assignment", target |-> target, value |-> value]

IfStmt(cond, then_branch, else_branch) ==
    [k |-> "IfStmt", cond |-> cond, then_branch |-> then_branch,
     else_branch |-> else_branch]

WhileStmt(cond, body) == [k |-> "WhileStmt", cond |-> cond, body |-> body]

ForStmt(init, cond, update, body) ==
    [k |-> "ForStmt", init |-> init, cond |-> cond, update |-> update,
     body |-> body]

ReturnStmt(expr) == [k |-> "ReturnStmt", expr |-> expr]

Expr(op, left, right) ==
    [k |-> "Expr", op |-> op, left |-> left, right |-> right]

UnaryExpr(op, expr) == [k |-> "UnaryExpr", op |-> op, expr |-> expr]

\* value: an integer (typ int), a boolean (typ bool), a text (char, string),
\* a record [whole, frac] (typ float)
Literal(value, typ) == [k |-> "Literal", typ |-> typ, value |-> value]

VarRef(name) == [k |-> "VarRef", name |-> name]

FuncCall(name, args) == [k |-> "FuncCall", name |-> name, args |-> args]

IsNone(n) == n.k = "None"

(***************************************************************************)
(* lexer.py: Token.                                                        *)
(***************************************************************************)
Token(type, value, lineno, col) ==
    [type |-> type, value |-> value, lineno |-> lineno, col |-> col]

(***************************************************************************)
(* parser.py: parse_expression (precedence climbing) and parse_primary.    *)
(* A parse returns [err, node, pos]; err = TRUE stands for ParserError.    *)
(***************************************************************************)
ParseOk(node, pos) == [err |-> FALSE, node |-> node, pos |-> pos]

ParseFail(pos) == [err |-> TRUE, node |-> NoNode, pos |-> pos]

\* Parser.peek: self.tokens[self.pos], pos counted from 0
peek(toks, pos) == toks[pos + 1]

IsSym(tok, v) == tok.type = "SYM" /\ tok.value = v

\* float(text) for [0-9]+\.[0-9]+ : the whole part and the fraction digits
\* without trailing zeros
RECURSIVE StripZeros(_)
StripZeros(s) ==
    IF Len(s) > 0 /\ CharAt(s, Len(s)) = "0"
    THEN StripZeros(SubSeq(s, 1, Len(s) - 1))
    ELSE s

FloatOf(text) ==
    LET i == FindFrom(text, ".", 1) IN
    [whole |-> StrToInt(SubSeq(text, 1, i - 1)),
     frac |-> StripZeros(SubSeq(text, i + 1, Len(text)))]

\* OpInfo with the two logical operators' levels exchanged
OpInfoAndOverOr(tok, left) ==
    IF tok.type = "ARITH"
    THEN [prec |-> IF tok.value \in {"*", "/", "%"} THEN 5 ELSE 4,
          assoc |-> "L"]
    ELSE IF tok.type = "RELOP" THEN [prec |-> 3, assoc |-> "L"]
    ELSE IF tok.type = "LOGIC"
    THEN IF tok.value \in {"&&", "||"}
         THEN [prec |-> IF tok.value = "||" THEN 1 ELSE 2, assoc |-> "L"]
         ELSE [prec |-> -1, assoc |-> "L"]
    ELSE IF tok.type = "ASSIGN" /\ left.k = "VarRef"
    THEN [prec |-> 0, assoc |-> "R"]
    ELSE [prec |-> -1, assoc |-> "L"]

\* OpInfo with one level for all five arithmetic operators
OpInfoFlatArith(tok, left) ==
    IF tok.type = "ARITH" THEN [prec |-> 4, assoc |-> "L"]
    ELSE IF tok.type = "RELOP" THEN [prec |-> 3, assoc |-> "L"]
    ELSE IF tok.type = "LOGIC"
    THEN IF tok.value \in {"&&", "||"}
         THEN [prec |-> IF tok.value = "||" THEN 2 ELSE 1, assoc |-> "L"]
         ELSE [prec |-> -1, assoc |-> "L"]
    ELSE IF tok.type = "ASSIGN" /\ left.k = "VarRef"
    THEN [prec |-> 0, assoc |-> "R"]
    ELSE [prec |-> -1, assoc |-> "L"]

\* OpInfo with the relational operators taken as right-associative
OpInfoRightRelop(tok, left) ==
    IF tok.type = "ARITH"
    THEN [prec |-> IF tok.value \in {"*", "/", "%"} THEN 5 ELSE 4,
          assoc |-> "L"]
    ELSE IF tok.type = "RELOP" THEN [prec |-> 3, assoc |-> "R"]
    ELSE IF tok.type = "LOGIC"
    THEN IF tok.value \in {"&&", "||"}
         THEN [prec |-> IF tok.value = "||" THEN 2 ELSE 1, assoc |-> "L"]
         ELSE [prec |-> -1, assoc |-> "L"]
    ELSE IF tok.type = "ASSIGN" /\ left.k = "VarRef"
    THEN [prec |-> 0, assoc |-> "R"]
    ELSE [prec |-> -1, assoc |-> "L"]

\* the (prec, assoc) a token gets in the operator loop, or prec = -1 for
\* "break"
OpInfo(tok, left) ==
    IF tok.type = "ARITH"
    THEN [prec |-> IF tok.value \in {"*", "/", "%"} THEN 5 ELSE 4,
          assoc |-> "L"]
    ELSE IF tok.type = "RELOP" THEN [prec |-> 3, assoc |-> "L"]
    ELSE IF tok.type = "LOGIC"
    THEN IF tok.value \in {"&&", "||"}
         THEN [prec |-> IF tok.value = "||" THEN 2 ELSE 1, assoc |-> "L"]
         ELSE [prec |-> -1, assoc |-> "L"]
    ELSE IF tok.type = "ASSIGN" /\ left.k = "VarRef"
    THEN [prec |-> 0, assoc |-> "R"]
    ELSE [prec |-> -1, assoc |-> "L"]

RECURSIVE parse_expression(_, _, _)
RECURSIVE parse_operators(_, _, _, _)
RECURSIVE parse_primary(_, _)
RECURSIVE parse_args(_, _, _)

\* the argument loop of a call, lines 249-253: acc is args so far
parse_args(toks, pos, acc) ==
    LET a == parse_expression(toks, pos, 0) IN
    IF a.err THEN a
    ELSE IF IsSym(peek(toks, a.pos), ",")
    THEN parse_args(toks, a.pos + 1, Append(acc, a.node))
    ELSE [err |-> FALSE, node |-> Append(acc, a.node), pos |-> a.pos]

parse_primary(toks, pos) ==
    LET tok == peek(toks, pos) IN
    IF tok.type = "INT_LIT"
    THEN ParseOk(Literal(StrToInt(tok.value), "int"), pos + 1)
    ELSE IF tok.type = "FLOAT_LIT"
    THEN ParseOk(Literal(FloatOf(tok.value), "float"), pos + 1)
    ELSE IF tok.type = "CHAR_LIT"
    THEN ParseOk(Literal(SubSeq(tok.value, 2, Len(tok.value) - 1), "char"),
                 pos + 1)
    ELSE IF tok.type = "STRING_LIT"
    THEN ParseOk(Literal(SubSeq(tok.value, 2, Len(tok.value) - 1), "string"),
                 pos + 1)
    ELSE IF tok.type = "BOOL_LIT"
    THEN ParseOk(Literal(tok.value = "true", "bool"), pos + 1)
    ELSE IF tok.type = "ID"
    THEN IF IsSym(peek(toks, pos + 1), "(")
         THEN LET args == IF IsSym(peek(toks, pos + 2), ")")
                          THEN [err |-> FALSE, node |-> <<>>, pos |-> pos + 2]
                          ELSE parse_args(toks, pos + 2, <<>>)
              IN  IF args.err THEN args
                  ELSE IF IsSym(peek(toks, args.pos), ")")
                  THEN ParseOk(FuncCall(tok.value, args.node), args.pos + 1)
                  ELSE ParseFail(args.pos)
         ELSE ParseOk(VarRef(tok.value), pos + 1)
    ELSE IF IsSym(tok, "(")
    THEN LET e == parse_expression(toks, pos + 1, 0) IN
         IF e.err THEN e
         ELSE IF IsSym(peek(toks, e.pos), ")")
         THEN ParseOk(e.node, e.pos + 1)
         ELSE ParseFail(e.pos)
    ELSE ParseFail(pos)

\* the `while True` loop of parse_expression, lines 194-228
parse_operators(toks, pos, left, min_prec) ==
    LET tok == peek(toks, pos)
        info == OpInfo(tok, left)
    IN
    IF info.prec < 0 \/ info.prec < min_prec
    THEN ParseOk(left, pos)
    ELSE LET rhs == IF info.assoc = "L"
                    THEN parse_expression(toks, pos + 1, info.prec + 1)
                    ELSE parse_expression(toks, pos + 1, info.prec)
         IN
         IF rhs.err THEN rhs
         ELSE parse_operators(toks, rhs.pos,
                  IF tok.value = "="
                  THEN Assignment(left.name, rhs.node)
                  ELSE Expr(tok.value, left, rhs.node),
                  min_prec)

parse_expression(toks, pos, min_prec) ==
    LET tok == peek(toks, pos) IN
    IF (tok.type = "ARITH" /\ tok.value \in {"+", "-"})
       \/ (tok.type = "LOGIC" /\ tok.value = "!")
    THEN LET operand == parse_expression(toks, pos + 1, 6) IN
         IF operand.err THEN operand
         ELSE parse_operators(toks, operand.pos,
                  UnaryExpr(tok.value, operand.node), min_prec)
    ELSE LET prim == parse_primary(toks, pos) IN
         IF prim.err THEN prim
         ELSE parse_operators(toks, prim.pos, prim.node, min_prec)

(***************************************************************************)
(* semantic.py: SemanticAnalyzer.  An outcome is [err, symtab, log]: err   *)
(* is the SemanticError message ("" when none was raised), symtab the      *)
(* dict the call leaves behind, log the statements walk_stmt was called    *)
(* on, in call order (a history of the walk, not a field of the code).     *)
(***************************************************************************)
Symbol(name, typ, kind) == [name |-> name, typ |-> typ, kind |-> kind]

\* symtab[name] = sym
DictSet(d, key, val) ==
    [n \in (DOMAIN d) \cup {key} |-> IF n = key THEN val ELSE d[n]]

EmptyDict == [n \in {} |-> None]

TypeOk(typ) == [err |-> "", typ |-> typ]

TypeErr(msg) == [err |-> msg, typ |-> None]

\* type_compatible closed under chaining: float <- int <- char gives
\* float <- char
type_compatible_chained(dest, src) ==
    IF dest = src THEN TRUE
    ELSE IF dest = "float" /\ src \in {"int", "char"} THEN TRUE
    ELSE IF dest = "int" /\ src = "char" THEN TRUE
    ELSE IF dest = "char" /\ src = "int" THEN TRUE
    ELSE FALSE

type_compatible(dest, src) ==
    IF dest = src THEN TRUE
    ELSE IF dest = "float" /\ src = "int" THEN TRUE
    ELSE IF dest = "int" /\ src = "char" THEN TRUE
    ELSE IF dest = "char" /\ src = "int" THEN TRUE
    ELSE FALSE

RECURSIVE eval_expr_type(_, _, _)
eval_expr_type(expr, symtab, functions) ==
    IF expr.k = "Literal" THEN TypeOk(expr.typ)
    ELSE IF expr.k = "VarRef"
    THEN IF expr.name \notin DOMAIN symtab
         THEN TypeErr("Use of undeclared variable " \o expr.name)
         ELSE TypeOk(symtab[expr.name].typ)
    ELSE IF expr.k = "Assignment"
    THEN IF expr.target \notin DOMAIN symtab
         THEN TypeErr("Assignment to undeclared variable " \o expr.target)
         ELSE LET r == eval_expr_type(expr.value, symtab, functions)
                  ttype == symtab[expr.target].typ
              IN  IF r.err # "" THEN r
                  ELSE IF ~type_compatible(ttype, r.typ)
                  THEN TypeErr("Type mismatch in assignment to "
                               \o expr.target \o ": " \o ttype \o " <- "
                               \o r.typ)
                  ELSE TypeOk(ttype)
    ELSE IF expr.k = "UnaryExpr"
    THEN LET e == eval_expr_type(expr.expr, symtab, functions) IN
         IF e.err # "" THEN e
         ELSE IF expr.op = "!"
         THEN IF e.typ # "bool"
              THEN TypeErr("'!' operator needs bool, got " \o e.typ)
              ELSE TypeOk("bool")
         ELSE e
    ELSE IF expr.k = "Expr"
    THEN LET l == eval_expr_type(expr.left, symtab, functions) IN
         IF l.err # "" THEN l
         ELSE LET r == eval_expr_type(expr.right, symtab, functions) IN
              IF r.err # "" THEN r
              ELSE IF expr.op \in {"+", "-", "*", "/", "%"}
              THEN IF l.typ = "float" \/ r.typ = "float"
                   THEN TypeOk("float")
                   ELSE TypeOk("int")
              ELSE IF expr.op \in {"<", ">", "<=", ">=", "==", "!="}
              THEN TypeOk("bool")
              ELSE IF expr.op \in {"&&", "||"} THEN TypeOk("bool")
              ELSE TypeOk("int")
    ELSE IF expr.k = "FuncCall"
    THEN IF expr.name = "print" THEN TypeOk("void")
         ELSE IF expr.name = "read"
         THEN IF Len(expr.args) = 0 \/ expr.args[1].k # "VarRef"
              THEN TypeErr("read expects a variable")
              ELSE IF expr.args[1].name \notin DOMAIN symtab
              THEN TypeErr("read on undeclared variable "
                           \o expr.args[1].name)
              ELSE TypeOk("void")
         ELSE IF expr.name \notin DOMAIN functions
         THEN TypeErr("Call to undefined function " \o expr.name)
         ELSE TypeOk(functions[expr.name].ret_type)
    ELSE TypeErr("Unable to determine expression type")

\* the condition check with numbers coerced to bool
condition_error_coercing(kind, condt) ==
    IF condt \in {"bool", "int", "float"} THEN ""
    ELSE "Condition in " \o kind \o " must be bool, got " \o condt

\* `if condt != 'bool': raise SemanticError(...)` of if, while and for: the
\* message raised, "" when none is
condition_error(kind, condt) ==
    IF condt # "bool"
    THEN "Condition in " \o kind \o " must be bool, got " \o condt
    ELSE ""

WalkOk(symtab, log) == [err |-> "", symtab |-> symtab, log |-> log]

WalkErr(msg, symtab, log) == [err |-> msg, symtab |-> symtab, log |-> log]

RECURSIVE walk_stmt(_, _, _, _, _)
RECURSIVE walk_block(_, _, _, _, _, _)

\* a body walked on dict(symtab) whatever it is
walk_body_copy(body, symtab, ret_type, functions, log) ==
    [walk_stmt(body, symtab, ret_type, functions, log)
         EXCEPT !.symtab = symtab]

\* a body that is a Block is walked on dict(symtab), any other statement on
\* symtab itself; the caller's dict is what the call leaves in `symtab`
walk_body(body, symtab, ret_type, functions, log) ==
    LET r == walk_stmt(body, symtab, ret_type, functions, log) IN
    IF body.k = "Block" THEN [r EXCEPT !.symtab = symtab] ELSE r

\* the init of a for walked on a copy of symtab
walk_init_copy(stmt, symtab, ret_type, functions, log) ==
    IF IsNone(stmt.init) THEN WalkOk(symtab, log)
    ELSE [walk_stmt(stmt.init, symtab, ret_type, functions, log)
              EXCEPT !.symtab = symtab]

\* the ForStmt branch, lines 82-83: the init, if there is one, is walked on
\* symtab itself, a VarDecl or not
walk_init(stmt, symtab, ret_type, functions, log) ==
    IF IsNone(stmt.init) THEN WalkOk(symtab, log)
    ELSE walk_stmt(stmt.init, symtab, ret_type, functions, log)

\* walk_block's loop from statement i on
walk_block(block, i, symtab, ret_type, functions, log) ==
    IF i > Len(block.statements) THEN WalkOk(symtab, log)
    ELSE LET r == walk_stmt(block.statements[i], symtab, ret_type,
                            functions, log)
         IN  IF r.err # "" THEN r
             ELSE walk_block(block, i + 1, r.symtab, ret_type, functions,
                             r.log)

walk_stmt(stmt, symtab, ret_type, functions, log0) ==
    LET log == Append(log0, stmt) IN
    IF stmt.k = "VarDecl"
    THEN IF stmt.name \in DOMAIN symtab
         THEN WalkErr("Variable " \o stmt.name \o " already declared",
                      symtab, log)
         ELSE LET it == IF ~IsNone(stmt.init)
                        THEN eval_expr_type(stmt.init, symtab, functions)
                        ELSE TypeOk(stmt.var_type)
              IN  IF it.err # "" THEN WalkErr(it.err, symtab, log)
                  ELSE IF ~IsNone(stmt.init)
                          /\ ~type_compatible(stmt.var_type, it.typ)
                  THEN WalkErr("Type mismatch initializing " \o stmt.name
                               \o ": " \o stmt.var_type \o " <- " \o it.typ,
                               symtab, log)
                  ELSE WalkOk(DictSet(symtab, stmt.name,
                                  Symbol(stmt.name, stmt.var_type, "var")),
                              log)
    ELSE IF stmt.k = "Assignment"
    THEN IF stmt.target \notin DOMAIN symtab
         THEN WalkErr("Assignment to undeclared variable " \o stmt.target,
                      symtab, log)
         ELSE LET ttype == symtab[stmt.target].typ
                  vt == eval_expr_type(stmt.value, symtab, functions)
              IN  IF vt.err # "" THEN WalkErr(vt.err, symtab, log)
                  ELSE IF ~type_compatible(ttype, vt.typ)
                  THEN WalkErr("Type mismatch in assignment to "
                               \o stmt.target \o ": " \o ttype \o " <- "
                               \o vt.typ, symtab, log)
                  ELSE WalkOk(symtab, log)
    ELSE IF stmt.k = "IfStmt"
    THEN LET condt == eval_expr_type(stmt.cond, symtab, functions) IN
         IF condt.err # "" THEN WalkErr(condt.err, symtab, log)
         ELSE IF condition_error("if", condt.typ) # ""
         THEN WalkErr(condition_error("if", condt.typ), symtab, log)
         ELSE LET t == walk_body(stmt.then_branch, symtab, ret_type,
                                 functions, log)
              IN  IF t.err # "" \/ IsNone(stmt.else_branch) THEN t
                  ELSE walk_body(stmt.else_branch, t.symtab, ret_type,
                                 functions, t.log)
    ELSE IF stmt.k = "WhileStmt"
    THEN LET condt == eval_expr_type(stmt.cond, symtab, functions) IN
         IF condt.err # "" THEN WalkErr(condt.err, symtab, log)
         ELSE IF condition_error("while", condt.typ) # ""
         THEN WalkErr(condition_error("while", condt.typ), symtab, log)
         ELSE walk_body(stmt.body, symtab, ret_type, functions, log)
    ELSE IF stmt.k = "ForStmt"
    THEN LET i == walk_init(stmt, symtab, ret_type, functions, log) IN
         IF i.err # "" THEN i
         ELSE LET condt == IF ~IsNone(stmt.cond)
                           THEN eval_expr_type(stmt.cond, i.symtab, functions)
                           ELSE TypeOk("bool")
              IN
              IF condt.err # "" THEN WalkErr(condt.err, i.symtab, i.log)
              ELSE IF condition_error("for", condt.typ) # ""
              THEN WalkErr(condition_error("for", condt.typ), i.symtab,
                           i.log)
              ELSE IF ~IsNone(stmt.body)
              THEN walk_body(stmt.body, i.symtab, ret_type, functions, i.log)
              ELSE i
    ELSE IF stmt.k = "ReturnStmt"
    THEN IF IsNone(stmt.expr)
         THEN IF ret_type # "void"
              THEN WalkErr("Missing return value for non-void function",
                           symtab, log)
              ELSE WalkOk(symtab, log)
         ELSE LET et == eval_expr_type(stmt.expr, symtab, functions) IN
              IF et.err # "" THEN WalkErr(et.err, symtab, log)
              ELSE IF ~type_compatible(ret_type, et.typ)
              THEN WalkErr("Return type mismatch: expected " \o ret_type
                           \o ", got " \o et.typ, symtab, log)
              ELSE WalkOk(symtab, log)
    ELSE IF stmt.k = "FuncCall"
    THEN IF stmt.name \notin {"print", "read"}
            /\ stmt.name \notin DOMAIN functions
         THEN WalkErr("Call to undefined function " \o stmt.name, symtab,
                      log)
         ELSE WalkOk(symtab, log)
    ELSE IF stmt.k = "Block"
    THEN LET b == walk_block(stmt, 1, symtab, ret_type, functions, log) IN
         [b EXCEPT !.symtab = symtab]
    ELSE IF stmt.k \in {"Expr", "UnaryExpr", "Literal", "VarRef"}
    THEN LET et == eval_expr_type(stmt, symtab, functions) IN
         IF et.err # "" THEN WalkErr(et.err, symtab, log)
         ELSE WalkOk(symtab, log)
    ELSE WalkErr("Unhandled statement in semantic analyzer", symtab, log)

\* the parameter loop of analyze_function, lines 38-39, from parameter i on
RECURSIVE seed_params(_, _, _)
seed_params(params, i, symtab) ==
    IF i > Len(params) THEN symtab
    ELSE seed_params(params, i + 1,
             DictSet(symtab, params[i][2],
                     Symbol(params[i][2], params[i][1], "var")))

analyze_function(func, functions, log) ==
    walk_block(func.body, 1, seed_params(func.params, 1, EmptyDict),
               func.ret_type, functions, log)

\* the first loop of analyze, lines 26-29: [err, functions]
RECURSIVE collect_functions(_, _, _)
collect_functions(funcs, i, functions) ==
    IF i > Len(funcs) THEN [err |-> "", functions |-> functions]
    ELSE IF funcs[i].name \in DOMAIN functions
    THEN [err |-> "Duplicate function " \o funcs[i].name,
          functions |-> functions]
    ELSE collect_functions(funcs, i + 1,
             DictSet(functions, funcs[i].name, funcs[i]))

\* the second loop of analyze, lines 32-33: self.functions keeps insertion
\* order, which is the program's order as duplicates were rejected.  last
\* is the outcome of the function analyzed before funcs[i]; the outcome of
\* the loop carries the symtab of the function analyzed last
RECURSIVE analyze_functions(_, _, _, _)
analyze_functions(funcs, i, functions, last) ==
    IF i > Len(funcs) THEN last
    ELSE LET r == analyze_function(funcs[i], functions, last.log) IN
         IF r.err # "" THEN r
         ELSE analyze_functions(funcs, i + 1, functions, r)

analyze(prog) ==
    LET c == collect_functions(prog.functions, 1, EmptyDict) IN
    IF c.err # "" THEN WalkErr(c.err, EmptyDict, <<>>)
    ELSE IF "main" \notin DOMAIN c.functions
    THEN WalkErr("No main function defined", EmptyDict, <<>>)
    ELSE analyze_functions(prog.functions, 1, c.functions,
                           WalkOk(EmptyDict, <<>>))

(***************************************************************************)
(* interpreter.py: Interpreter.  Python values are records [t, v]: ints,   *)
(* bools (v is 0 or 1), None, integer-valued floats and texts.  A run      *)
(* state is [st, val, env, out, inp, fuel]: env the variable dict, out the *)
(* lines printed so far (one tuple of values per print call), inp the      *)
(* lines input() will return, fuel the loop iterations and calls left.     *)
(* st is "ok", "return" (ReturnException in flight, carrying val),         *)
(* "raise" (any other Python exception), "diverge" (fuel ran out: the      *)
(* code would still be running) or "unmodelled" (a value outside the       *)
(* modelled ones, such as a non-integer float).                            *)
(***************************************************************************)
IntV(n) == [t |-> "int", v |-> n]

BoolV(b) == [t |-> "bool", v |-> IF b THEN 1 ELSE 0]

FloatV(n) == [t |-> "float", v |-> n]

StrV(s) == [t |-> "str", v |-> s]

NoneV == [t |-> "none", v |-> 0]

IsNum(x) == x.t \in {"int", "bool", "float"}

\* Python truthiness of a value
Truthy(x) ==
    IF x.t = "none" THEN FALSE
    ELSE IF x.t = "str" THEN Len(x.v) > 0
    ELSE x.v # 0

\* the numeric result type of an arithmetic operator
NumV(l, r, n) ==
    IF l.t = "float" \/ r.t = "float" THEN FloatV(n) ELSE IntV(n)

Val(x) == [st |-> "ok", val |-> x]

Raise == [st |-> "raise", val |-> NoneV]

Unmodelled == [st |-> "unmodelled", val |-> NoneV]

\* the value a Literal node holds at run time
LiteralValue(lit) ==
    IF lit.typ = "int" THEN Val(IntV(lit.value))
    ELSE IF lit.typ = "bool" THEN Val(BoolV(lit.value))
    ELSE IF lit.typ = "float"
    THEN IF lit.value.frac = "" THEN Val(FloatV(lit.value.whole))
         ELSE Unmodelled
    ELSE Val(StrV(lit.value))

\* eval_expr's operator table, lines 224-237
BinaryOp(op, l, r) ==
    IF op \in {"&&", "||"}
    THEN IF op = "&&" THEN Val(IF Truthy(l) THEN r ELSE l)
         ELSE Val(IF Truthy(l) THEN l ELSE r)
    ELSE IF op \in {"==", "!="}
    THEN LET eq == IF IsNum(l) /\ IsNum(r) THEN l.v = r.v
                   ELSE IF l.t = r.t THEN l.v = r.v
                   ELSE FALSE
         IN  Val(BoolV(IF op = "==" THEN eq ELSE ~eq))
    ELSE IF op \in {"+", "-", "*", "/", "%", "<", ">", "<=", ">="}
    THEN IF l.t = "none" \/ r.t = "none" THEN Raise
         ELSE IF l.t = "str" \/ r.t = "str"
         THEN IF l.t = "str" /\ r.t = "str" /\ op \in {"-", "/"} THEN Raise
              ELSE IF (l.t = "str") # (r.t = "str") /\ op \notin {"*", "%"}
              THEN Raise
              ELSE Unmodelled
         ELSE IF op = "+" THEN Val(NumV(l, r, l.v + r.v))
         ELSE IF op = "-" THEN Val(NumV(l, r, l.v - r.v))
         ELSE IF op = "*" THEN Val(NumV(l, r, l.v * r.v))
         ELSE IF op = "/"
         THEN IF r.v = 0 THEN Raise
              ELSE IF l.v - r.v * (l.v \div r.v) = 0
              THEN Val(FloatV(l.v \div r.v))
              ELSE Unmodelled
         ELSE IF op = "%"
         THEN IF r.v = 0 THEN Raise
              ELSE Val(NumV(l, r, l.v - r.v * (l.v \div r.v)))
         ELSE IF op = "<" THEN Val(BoolV(l.v < r.v))
         ELSE IF op = ">" THEN Val(BoolV(l.v > r.v))
         ELSE IF op = "<=" THEN Val(BoolV(l.v <= r.v))
         ELSE Val(BoolV(l.v >= r.v))
    ELSE Val(NoneV)

\* eval_expr's unary operators, lines 213-219
UnaryOp(op, x) ==
    IF op = "!" THEN Val(BoolV(~Truthy(x)))
    ELSE IF op \in {"-", "+"}
    THEN IF ~IsNum(x) THEN Raise
         ELSE IF x.t = "float"
         THEN Val(FloatV(IF op = "-" THEN 0 - x.v ELSE x.v))
         ELSE Val(IntV(IF op = "-" THEN 0 - x.v ELSE x.v))
    ELSE Val(x)

\* what int(v) / float(v) make of an input line, lines 162-168
InputValue(v) ==
    IF Contains(v, ".")
    THEN LET i == FindFrom(v, ".", 1) IN
         IF isdigit(SubSeq(v, 1, i - 1))
            /\ isdigit(SubSeq(v, i + 1, Len(v)))
         THEN IF StripZeros(SubSeq(v, i + 1, Len(v))) = ""
              THEN Val(FloatV(StrToInt(SubSeq(v, 1, i - 1))))
              ELSE Unmodelled
         ELSE Val(StrV(v))
    ELSE IF isdigit(v) THEN Val(IntV(StrToInt(v)))
    ELSE IF Len(v) > 1 /\ CharAt(v, 1) = "-" /\ isdigit(Tail(v))
    THEN Val(IntV(0 - StrToInt(Tail(v))))
    ELSE Val(StrV(v))

Bad(r) == r.st # "ok"

With(s, r) == [s EXCEPT !.st = r.st, !.val = r.val]

\* The methods of the interpreter call one another; every such call goes
\* through Interp, which hands the arguments to the method named.
RECURSIVE Interp(_, _)

EvalExpr(expr, s, functions) == Interp("eval_expr", <<expr, s, functions>>)

EvalArgs(args, i, acc, s, functions) ==
    Interp("eval_args", <<args, i, acc, s, functions>>)

ExecStmt(stmt, s, functions) == Interp("exec_stmt", <<stmt, s, functions>>)

ExecBlock(block, i, s, functions) ==
    Interp("exec_block", <<block, i, s, functions>>)

ExecWhile(stmt, s, functions) == Interp("exec_while", <<stmt, s, functions>>)

ExecFor(stmt, s, functions) == Interp("exec_for", <<stmt, s, functions>>)

ExecFunction(func, args, s, functions) ==
    Interp("exec_function", <<func, args, s, functions>>)

\* [eval_expr(a, env) for a in args] from argument i on; val collects them
eval_args(args, i, acc, s, functions) ==
    IF i > Len(args) THEN [s EXCEPT !.st = "ok", !.val = acc]
    ELSE LET a == EvalExpr(args[i], s, functions) IN
         IF Bad(a) THEN a
         ELSE EvalArgs(args, i + 1, Append(acc, a.val), a, functions)

\* env = dict(zip(param names, args)); run the body; catch ReturnException
exec_function(func, args, s, functions) ==
    IF s.fuel = 0 THEN [s EXCEPT !.st = "diverge"]
    ELSE
    LET n == IF Len(func.params) < Len(args) THEN Len(func.params)
             ELSE Len(args)
        names == {func.params[i][2] : i \in 1..n}
        env == [nm \in names |->
                   args[CHOOSE i \in 1..n :
                           /\ func.params[i][2] = nm
                           /\ \A j \in (i + 1)..n : func.params[j][2] # nm]]
        r == ExecBlock(func.body, 1,
                 [s EXCEPT !.env = env, !.fuel = s.fuel - 1], functions)
    IN  IF r.st = "return" THEN [r EXCEPT !.st = "ok", !.env = s.env]
        ELSE IF r.st = "ok" THEN [r EXCEPT !.val = NoneV, !.env = s.env]
        ELSE [r EXCEPT !.env = s.env]

eval_expr(expr, s, functions) ==
    IF expr.k = "Literal" THEN With(s, LiteralValue(expr))
    ELSE IF expr.k = "VarRef"
    THEN IF expr.name \notin DOMAIN s.env THEN With(s, Raise)
         ELSE With(s, Val(s.env[expr.name]))
    ELSE IF expr.k = "Assignment"
    THEN LET v == EvalExpr(expr.value, s, functions) IN
         IF Bad(v) THEN v
         ELSE IF expr.target \notin DOMAIN v.env THEN With(v, Raise)
         ELSE [v EXCEPT !.env = DictSet(v.env, expr.target, v.val)]
    ELSE IF expr.k = "UnaryExpr"
    THEN LET v == EvalExpr(expr.expr, s, functions) IN
         IF Bad(v) THEN v ELSE With(v, UnaryOp(expr.op, v.val))
    ELSE IF expr.k = "Expr"
    THEN LET l == EvalExpr(expr.left, s, functions) IN
         IF Bad(l) THEN l
         ELSE LET r == EvalExpr(expr.right, l, functions) IN
              IF Bad(r) THEN r
              ELSE With(r, BinaryOp(expr.op, l.val, r.val))
    ELSE IF expr.k = "FuncCall"
    THEN IF expr.name = "print"
         THEN LET a == EvalArgs(expr.args, 1, <<>>, s, functions) IN
              IF Bad(a) THEN a
              ELSE [a EXCEPT !.out = Append(a.out, a.val), !.val = NoneV]
         ELSE IF expr.name = "read"
         THEN IF Len(expr.args) = 0 \/ expr.args[1].k # "VarRef"
              THEN With(s, Raise)
              ELSE IF Len(s.inp) = 0 THEN With(s, Raise)
              ELSE With([s EXCEPT !.inp = Tail(s.inp)],
                        InputValue(Head(s.inp)))
         ELSE IF expr.name \notin DOMAIN functions THEN With(s, Raise)
         ELSE LET a == EvalArgs(expr.args, 1, <<>>, s, functions) IN
              IF Bad(a) THEN a
              ELSE ExecFunction(functions[expr.name], a.val, a, functions)
    ELSE With(s, Raise)

\* exec_block's loop from statement i on
exec_block(block, i, s, functions) ==
    IF i > Len(block.statements) THEN s
    ELSE LET r == ExecStmt(block.statements[i], s, functions) IN
         IF Bad(r) THEN r ELSE ExecBlock(block, i + 1, r, functions)

\* `exec_block(body) if isinstance(body, Block) else ExecStmt(body)`: both
\* run the statements on the same env
exec_body(body, s, functions) ==
    IF body.k = "Block" THEN ExecBlock(body, 1, s, functions)
    ELSE ExecStmt(body, s, functions)

\* the while loop of lines 117-121
exec_while(stmt, s, functions) ==
    IF s.fuel = 0 THEN [s EXCEPT !.st = "diverge"]
    ELSE LET c == EvalExpr(stmt.cond, s, functions) IN
         IF Bad(c) THEN c
         ELSE IF ~Truthy(c.val) THEN c
         ELSE LET b == exec_body(stmt.body, c, functions) IN
              IF Bad(b) THEN b
              ELSE ExecWhile(stmt, [b EXCEPT !.fuel = b.fuel - 1],
                              functions)

\* the `while True` loop of lines 130-141
exec_for(stmt, s, functions) ==
    IF s.fuel = 0 THEN [s EXCEPT !.st = "diverge"]
    ELSE LET c == IF IsNone(stmt.cond) THEN With(s, Val(BoolV(TRUE)))
                  ELSE EvalExpr(stmt.cond, s, functions)
         IN
         IF Bad(c) THEN c
         ELSE IF ~IsNone(stmt.cond) /\ ~Truthy(c.val) THEN c
         ELSE LET b == exec_body(stmt.body, c, functions) IN
              IF Bad(b) THEN b
              ELSE LET u == IF IsNone(stmt.update) THEN b
                            ELSE IF stmt.update.k = "Assignment"
                            THEN ExecStmt(stmt.update, b, functions)
                            ELSE EvalExpr(stmt.update, b, functions)
                   IN  IF Bad(u) THEN u
                       ELSE ExecFor(stmt, [u EXCEPT !.fuel = u.fuel - 1],
                                     functions)

exec_stmt(stmt, s, functions) ==
    IF stmt.k = "VarDecl"
    THEN IF IsNone(stmt.init)
         THEN [s EXCEPT !.env = DictSet(s.env, stmt.name, NoneV)]
         ELSE LET v == EvalExpr(stmt.init, s, functions) IN
              IF Bad(v) THEN v
              ELSE [v EXCEPT !.env = DictSet(v.env, stmt.name, v.val)]
    ELSE IF stmt.k = "Assignment"
    THEN LET v == EvalExpr(stmt.value, s, functions) IN
         IF Bad(v) THEN v
         ELSE IF stmt.target \notin DOMAIN v.env THEN With(v, Raise)
         ELSE [v EXCEPT !.env = DictSet(v.env, stmt.target, v.val)]
    ELSE IF stmt.k = "IfStmt"
    THEN LET c == EvalExpr(stmt.cond, s, functions) IN
         IF Bad(c) THEN c
         ELSE IF Truthy(c.val) THEN exec_body(stmt.then_branch, c, functions)
         ELSE IF ~IsNone(stmt.else_branch)
         THEN exec_body(stmt.else_branch, c, functions)
         ELSE c
    ELSE IF stmt.k = "WhileStmt" THEN ExecWhile(stmt, s, functions)
    ELSE IF stmt.k = "ForStmt"
    THEN LET i == IF IsNone(stmt.init) THEN s
                  ELSE ExecStmt(stmt.init, s, functions)
         IN  IF Bad(i) THEN i ELSE ExecFor(stmt, i, functions)
    ELSE IF stmt.k = "ReturnStmt"
    THEN IF IsNone(stmt.expr) THEN [s EXCEPT !.st = "return", !.val = NoneV]
         ELSE LET v == EvalExpr(stmt.expr, s, functions) IN
              IF Bad(v) THEN v ELSE [v EXCEPT !.st = "return"]
    ELSE IF stmt.k = "FuncCall"
    THEN IF stmt.name = "print"
         THEN LET a == EvalArgs(stmt.args, 1, <<>>, s, functions) IN
              IF Bad(a) THEN a
              ELSE [a EXCEPT !.out = Append(a.out, a.val), !.val = NoneV]
         ELSE IF stmt.name = "read"
         THEN IF Len(stmt.args) = 0 \/ stmt.args[1].k # "VarRef"
              THEN With(s, Raise)
              ELSE IF stmt.args[1].name \notin DOMAIN s.env
              THEN With(s, Raise)
              ELSE IF Len(s.inp) = 0 THEN With(s, Raise)
              ELSE LET v == InputValue(Head(s.inp)) IN
                   IF Bad(v) THEN With(s, v)
                   ELSE [s EXCEPT !.inp = Tail(s.inp),
                             !.env = DictSet(s.env, stmt.args[1].name, v.val)]
         ELSE IF stmt.name \notin DOMAIN functions THEN With(s, Raise)
         ELSE LET a == EvalArgs(stmt.args, 1, <<>>, s, functions) IN
              IF Bad(a) THEN a
              ELSE ExecFunction(functions[stmt.name], a.val, a, functions)
    ELSE IF stmt.k = "Block" THEN ExecBlock(stmt, 1, s, functions)
    ELSE IF stmt.k \in {"Expr", "UnaryExpr", "Literal", "VarRef"}
    THEN EvalExpr(stmt, s, functions)
    ELSE With(s, Raise)

Interp(method, a) ==
    IF method = "eval_expr" THEN eval_expr(a[1], a[2], a[3])
    ELSE IF method = "eval_args" THEN eval_args(a[1], a[2], a[3], a[4], a[5])
    ELSE IF method = "exec_stmt" THEN exec_stmt(a[1], a[2], a[3])
    ELSE IF method = "exec_block" THEN exec_block(a[1], a[2], a[3], a[4])
    ELSE IF method = "exec_while" THEN exec_while(a[1], a[2], a[3])
    ELSE IF method = "exec_for" THEN exec_for(a[1], a[2], a[3])
    ELSE exec_function(a[1], a[2], a[3], a[4])

\* Interpreter.__init__: {f.name: f for f in program.functions}, a later
\* function of the same name replacing an earlier one
FunctionTable(prog) ==
    LET fs == prog.functions IN
    [nm \in {fs[i].name : i \in 1..Len(fs)} |->
        fs[CHOOSE i \in 1..Len(fs) :
              /\ fs[i].name = nm
              /\ \A j \in (i + 1)..Len(fs) : fs[j].name # nm]]

\* Interpreter.run with the given input lines: st "ok" with main's return
\* value in val, out the printed lines
run(prog, inp) ==
    LET functions == FunctionTable(prog)
        s0 == [st |-> "ok", val |-> NoneV, env |-> EmptyDict, out |-> <<>>,
               inp |-> inp, fuel |-> Fuel]
    IN  IF "main" \notin DOMAIN functions THEN With(s0, Raise)
        ELSE exec_function(functions["main"], <<>>, s0, functions)

(***************************************************************************)
(* ir_generator.py: TACInstruction and IRGenerator.  The generator's state *)
(* is the record [instructions, temp_count, label_count, symbol_table].    *)
(***************************************************************************)
TACInstruction(op, dest, src1, src2, label) ==
    [op |-> op, dest |-> dest, src1 |-> src1, src2 |-> src2, label |-> label]

\* ', '.join(items)
RECURSIVE JoinComma(_)
JoinComma(items) ==
    IF Len(items) = 0 THEN ""
    ELSE IF Len(items) = 1 THEN items[1]
    ELSE items[1] \o ", " \o JoinComma(Tail(items))

\* TACInstruction.__str__
TACStr(i) ==
    IF i.op = "label" THEN i.label \o ":"
    ELSE IF i.op = "assign" THEN i.dest \o " = " \o i.src1
    ELSE IF i.op \in {"binop", "unop"}
    THEN i.dest \o " = " \o i.src1 \o " " \o i.src2
    ELSE IF i.op = "jump" THEN "goto " \o i.label
    ELSE IF i.op = "cjump" THEN "if " \o i.dest \o " goto " \o i.label
    ELSE IF i.op = "call"
    THEN i.dest \o " = call " \o i.src2 \o "(" \o JoinComma(i.src1) \o ")"
    ELSE IF i.op = "return"
    THEN IF i.dest # None THEN "return " \o i.dest ELSE "return"
    ELSE IF i.op = "param" THEN "param " \o i.dest
    ELSE i.op \o " " \o i.dest \o " " \o i.src1 \o " " \o i.src2

\* IRGenerator.__init__ / the reset at the top of generate
IRInit ==
    [instructions |-> <<>>, temp_count |-> 0, label_count |-> 0,
     symbol_table |-> EmptyDict]

\* self.instructions.append(ins)
Emit(g, ins) == [g EXCEPT !.instructions = Append(@, ins)]

\* new_temp: the generator after the call and the name returned
new_temp(g) ==
    [g |-> [g EXCEPT !.temp_count = @ + 1],
     name |-> "t" \o IntToStr(g.temp_count + 1)]

\* new_label without the increment of label_count
new_label_stuck(g) ==
    [g |-> g, name |-> "L" \o IntToStr(g.label_count + 1)]

\* new_label: the generator after the call and the name returned
new_label(g) ==
    [g |-> [g EXCEPT !.label_count = @ + 1],
     name |-> "L" \o IntToStr(g.label_count + 1)]

\* str(expr.value) of a Literal
PyStr(lit) ==
    IF lit.typ = "int" THEN IntToStr(lit.value)
    ELSE IF lit.typ = "bool" THEN (IF lit.value THEN "True" ELSE "False")
    ELSE IF lit.typ = "float"
    THEN IntToStr(lit.value.whole) \o "."
         \o (IF lit.value.frac = "" THEN "0" ELSE lit.value.frac)
    ELSE lit.value

RECURSIVE generate_statement(_, _)
RECURSIVE generate_statements(_, _, _)
RECURSIVE generate_expression(_, _)
RECURSIVE generate_args(_, _, _, _)
RECURSIVE generate_func_call(_, _)

\* the parameter loop of generate_func_call, lines 177-180; the result is
\* the generator and arg_temps
generate_args(args, i, g, arg_temps) ==
    IF i > Len(args) THEN [g |-> g, temps |-> arg_temps]
    ELSE LET a == generate_expression(args[i], g) IN
         generate_args(args, i + 1,
             Emit(a.g, TACInstruction("param", a.name, None, None, None)),
             Append(arg_temps, a.name))

generate_func_call(call, g) ==
    LET a == generate_args(call.args, 1, g, <<>>)
        t == new_temp(a.g)
    IN  [g |-> Emit(t.g, TACInstruction("call", t.name, a.temps, call.name,
                                        None)),
         name |-> t.name]

\* the generator afterwards and the name of the place holding the result
\* (the test on temp_count is never true: it has the generator the call
\* starts from evaluated before the translation)
generate_expression(expr, g) ==
    IF g.temp_count < 0 THEN [g |-> g, name |-> None]
    ELSE IF expr.k = "Literal"
    THEN LET t == new_temp(g) IN
         [g |-> Emit(t.g, TACInstruction("assign", t.name, PyStr(expr), None,
                                         None)),
          name |-> t.name]
    ELSE IF expr.k = "VarRef" THEN [g |-> g, name |-> expr.name]
    ELSE IF expr.k = "UnaryExpr"
    THEN LET src == generate_expression(expr.expr, g)
             t == new_temp(src.g)
         IN  [g |-> Emit(t.g, TACInstruction("unop", t.name, expr.op,
                                             src.name, None)),
              name |-> t.name]
    ELSE IF expr.k = "Expr"
    THEN LET l == generate_expression(expr.left, g)
             r == generate_expression(expr.right, l.g)
             t == new_temp(r.g)
         IN  [g |-> Emit(t.g, TACInstruction("binop", t.name, l.name,
                                             expr.op \o " " \o r.name, None)),
              name |-> t.name]
    ELSE IF expr.k = "Assignment"
    THEN LET v == generate_expression(expr.value, g) IN
         [g |-> Emit(v.g, TACInstruction("assign", expr.target, v.name, None,
                                         None)),
          name |-> expr.target]
    ELSE generate_func_call(expr, g)

\* the ForStmt branch without its update
skip_update(stmt, g) == g

\* the ForStmt branch, lines 130-131: the update's code, if there is one
generate_update(stmt, g) ==
    IF IsNone(stmt.update) THEN g
    ELSE generate_expression(stmt.update, g).g

\* for s in stmt.statements: self.generate_statement(s)
generate_statements(stmts, i, g) ==
    IF i > Len(stmts) THEN g
    ELSE generate_statements(stmts, i + 1, generate_statement(stmts[i], g))

\* (the test on temp_count is never true, as in generate_expression)
generate_statement(stmt, g) ==
    IF g.temp_count < 0 THEN g
    ELSE IF stmt.k = "Block" THEN generate_statements(stmt.statements, 1, g)
    ELSE IF stmt.k = "VarDecl"
    THEN LET g1 == IF IsNone(stmt.init) THEN g
                   ELSE LET e == generate_expression(stmt.init, g) IN
                        Emit(e.g, TACInstruction("assign", stmt.name, e.name,
                                                 None, None))
         IN  [g1 EXCEPT !.symbol_table = DictSet(@, stmt.name, stmt.var_type)]
    ELSE IF stmt.k = "Assignment"
    THEN LET e == generate_expression(stmt.value, g) IN
         Emit(e.g, TACInstruction("assign", stmt.target, e.name, None, None))
    ELSE IF stmt.k = "IfStmt"
    THEN LET c == generate_expression(stmt.cond, g)
             else_label == new_label(c.g)
             end_label == new_label(else_label.g)
             g1 == Emit(end_label.g, TACInstruction("cjump", c.name, None,
                                                    None, else_label.name))
             g2 == generate_statement(stmt.then_branch, g1)
             g3 == Emit(g2, TACInstruction("jump", None, None, None,
                                           end_label.name))
             g4 == Emit(g3, TACInstruction("label", None, None, None,
                                           else_label.name))
             g5 == IF IsNone(stmt.else_branch) THEN g4
                   ELSE generate_statement(stmt.else_branch, g4)
         IN  Emit(g5, TACInstruction("label", None, None, None,
                                     end_label.name))
    ELSE IF stmt.k = "WhileStmt"
    THEN LET start_label == new_label(g)
             end_label == new_label(start_label.g)
             g1 == Emit(end_label.g, TACInstruction("label", None, None, None,
                                                    start_label.name))
             c == generate_expression(stmt.cond, g1)
             g2 == Emit(c.g, TACInstruction("cjump", c.name, None, None,
                                            end_label.name))
             g3 == generate_statement(stmt.body, g2)
             g4 == Emit(g3, TACInstruction("jump", None, None, None,
                                           start_label.name))
         IN  Emit(g4, TACInstruction("label", None, None, None,
                                     end_label.name))
    ELSE IF stmt.k = "ForStmt"
    THEN LET g0 == IF IsNone(stmt.init) THEN g
                   ELSE generate_statement(stmt.init, g)
             start_label == new_label(g0)
             end_label == new_label(start_label.g)
             g1 == Emit(end_label.g, TACInstruction("label", None, None, None,
                                                    start_label.name))
             g2 == IF IsNone(stmt.cond) THEN g1
                   ELSE LET c == generate_expression(stmt.cond, g1) IN
                        Emit(c.g, TACInstruction("cjump", c.name, None, None,
                                                 end_label.name))
             g3 == generate_statement(stmt.body, g2)
             g4 == generate_update(stmt, g3)
             g5 == Emit(g4, TACInstruction("jump", None, None, None,
                                           start_label.name))
         IN  Emit(g5, TACInstruction("label", None, None, None,
                                     end_label.name))
    ELSE IF stmt.k = "ReturnStmt"
    THEN IF IsNone(stmt.expr)
         THEN Emit(g, TACInstruction("return", None, None, None, None))
         ELSE LET e == generate_expression(stmt.expr, g) IN
              Emit(e.g, TACInstruction("return", e.name, None, None, None))
    ELSE IF stmt.k = "FuncCall" THEN generate_func_call(stmt, g).g
    ELSE IF stmt.k = "Expr" THEN generate_expression(stmt, g).g
    ELSE g

\* for typ, name in func.params: self.symbol_table[name] = typ
RECURSIVE declare_params(_, _, _)
declare_params(params, i, table) ==
    IF i > Len(params) THEN table
    ELSE declare_params(params, i + 1,
                        DictSet(table, params[i][2], params[i][1]))

generate_function(func, g) ==
    LET g1 == Emit(g, TACInstruction("label", None, None, None, func.name))
        g2 == [g1 EXCEPT !.symbol_table = declare_params(func.params, 1, @)]
        g3 == generate_statement(func.body, g2)
    IN  IF func.ret_type = "void"
        THEN Emit(g3, TACInstruction("return", None, None, None, None))
        ELSE g3

RECURSIVE generate_functions(_, _, _)
generate_functions(funcs, i, g) ==
    IF i > Len(funcs) THEN g
    ELSE generate_functions(funcs, i + 1, generate_function(funcs[i], g))

\* the start of generate with the counters left as the last call left them
keep_counters(g) == [g EXCEPT !.instructions = <<>>]

\* the start of generate, lines 67-69: instructions, temp_count and
\* label_count are reset, symbol_table is kept
reset_counters(g) ==
    [g EXCEPT !.instructions = <<>>, !.temp_count = 0, !.label_count = 0]

\* IRGenerator.generate called on the generator g: the generator afterwards
generate_on(g, prog) ==
    generate_functions(prog.functions, 1, reset_counters(g))

\* IRGenerator.generate on a fresh generator: the instruction list
generate(prog) == generate_on(IRInit, prog).instructions

(***************************************************************************)
(* codegen.py: CodeGenerator.  The result is the list of assembly lines    *)
(* (generate joins them with newlines).                                    *)
(***************************************************************************)
OpMnemonic(op) ==
    IF op = "+" THEN <<"ADD">> ELSE IF op = "-" THEN <<"SUB">>
    ELSE IF op = "*" THEN <<"MUL">> ELSE IF op = "/" THEN <<"DIV">>
    ELSE IF op = "%" THEN <<"MOD">> ELSE IF op = "&&" THEN <<"AND">>
    ELSE IF op = "||" THEN <<"OR">> ELSE IF op = "<" THEN <<"LT">>
    ELSE IF op = ">" THEN <<"GT">> ELSE IF op = "<=" THEN <<"LE">>
    ELSE IF op = ">=" THEN <<"GE">> ELSE IF op = "==" THEN <<"EQ">>
    ELSE IF op = "!=" THEN <<"NE">> ELSE <<>>

\* the lines generate_instruction appends for one instruction
generate_instruction(instr) ==
    IF instr.op = "assign"
    THEN <<"LOAD " \o instr.src1, "STORE " \o instr.dest>>
    ELSE IF instr.op = "binop"
    THEN LET parts == Split1(instr.src2) IN
         <<"LOAD " \o instr.src1, "LOAD " \o parts[2]>>
         \o OpMnemonic(parts[1]) \o <<"STORE " \o instr.dest>>
    ELSE IF instr.op = "unop"
    THEN <<"LOAD " \o instr.src2>>
         \o (IF instr.src1 = "-" THEN <<"NEG">>
             ELSE IF instr.src1 = "!" THEN <<"NOT">> ELSE <<>>)
         \o <<"STORE " \o instr.dest>>
    ELSE IF instr.op = "jump" THEN <<"JMP " \o instr.label>>
    ELSE IF instr.op = "cjump"
    THEN <<"LOAD " \o instr.dest, "JTRUE " \o instr.label>>
    ELSE IF instr.op = "label" THEN <<instr.label \o ":">>
    ELSE IF instr.op = "call"
    THEN [a \in 1..Len(instr.src1) |-> "PUSH " \o instr.src1[a]]
         \o <<"CALL " \o instr.src2>>
         \o (IF instr.dest # None THEN <<"STORE " \o instr.dest>> ELSE <<>>)
    ELSE IF instr.op = "return"
    THEN (IF instr.dest # None THEN <<"LOAD " \o instr.dest>> ELSE <<>>)
         \o <<"RET">>
    ELSE IF instr.op = "param" THEN <<"PUSH " \o instr.dest>>
    ELSE <<"; " \o TACStr(instr)>>

\* for instr in tac_instructions: self.generate_instruction(instr) (the
\* test on assembly is never true: it has the lines of one iteration
\* evaluated before the next one starts)
RECURSIVE codegen_lines(_, _, _)
codegen_lines(instructions, i, assembly) ==
    IF i > Len(instructions) \/ Len(assembly) < 0 THEN assembly
    ELSE codegen_lines(instructions, i + 1,
                       assembly \o generate_instruction(instructions[i]))

\* the start of generate with self.assembly left as the last call left it
keep_assembly(assembly) == assembly

\* the start of generate, line 21: self.assembly = []
reset_assembly(assembly) == <<>>

\* CodeGenerator.generate called on a generator whose self.assembly is
\* assembly: self.assembly before the join
codegen_on(assembly, instructions) ==
    codegen_lines(instructions, 1, reset_assembly(assembly))

\* CodeGenerator().generate: self.assembly before the join
codegen(instructions) == codegen_on(<<>>, instructions)

(***************************************************************************)
(* optimizer.py: TACOptimizer.  Each pass maps the instruction list before *)
(* it to the instruction list after it.                                    *)
(***************************************************************************)
\* a Python list: the sequence with every element evaluated
List(f) == f \o <<>>

\* del d[key]
DictDel(d, key) == [n \in (DOMAIN d) \ {key} |-> d[n]]

\* d.get(x, x)
DictGet(d, x) == IF x \in DOMAIN d THEN d[x] ELSE x

\* isinstance(instr.src1, list): only generate_func_call stores a list
IsList(instr) == instr.op = "call"

\* the first loop of constant_propagation, lines 41-52: self.constants after
\* the instructions from i on (the test on constants is never true: it has
\* the dict of one iteration evaluated before the next one starts)
RECURSIVE collect_constants(_, _, _)
collect_constants(instructions, i, constants) ==
    IF i > Len(instructions) \/ DOMAIN constants = {None} THEN constants
    ELSE LET instr == instructions[i] IN
         collect_constants(instructions, i + 1,
             IF instr.op = "assign" /\ isdigit(instr.src1)
             THEN DictSet(constants, instr.dest, instr.src1)
             ELSE IF instr.op = "assign" /\ instr.src1 \in DOMAIN constants
             THEN DictSet(constants, instr.dest, constants[instr.src1])
             ELSE IF instr.op \in {"binop", "unop"} THEN constants
             ELSE IF instr.dest \in DOMAIN constants
             THEN DictDel(constants, instr.dest)
             ELSE constants)

\* the body of the second loop of constant_propagation, lines 56-66
replace_uses(instr, constants) ==
    LET src1 == IF IsList(instr)
                THEN [a \in 1..Len(instr.src1) |->
                         DictGet(constants, instr.src1[a])]
                ELSE IF instr.src1 # None /\ instr.src1 \in DOMAIN constants
                THEN constants[instr.src1]
                ELSE instr.src1
        dest == IF instr.dest # None /\ instr.dest \in DOMAIN constants
                THEN constants[instr.dest]
                ELSE instr.dest
        src2 == IF instr.src2 # None /\ Contains(instr.src2, " ")
                THEN LET parts == Split1(instr.src2) IN
                     IF parts[2] \in DOMAIN constants
                     THEN parts[1] \o " " \o constants[parts[2]]
                     ELSE instr.src2
                ELSE instr.src2
    IN  [instr EXCEPT !.src1 = src1, !.dest = dest, !.src2 = src2]

constant_propagation(instructions) ==
    LET constants == collect_constants(instructions, 1, EmptyDict) IN
    List([i \in 1..Len(instructions) |->
             replace_uses(instructions[i], constants)])

\* 1 if cond else 0
Flag(cond) == IF cond THEN 1 ELSE 0

\* compute_constant on two non-negative ints; raised stands for the
\* ZeroDivisionError of // and % by zero
compute_constant(op, left, right) ==
    IF op \in {"/", "%"} /\ right = 0 THEN [raised |-> TRUE, result |-> 0]
    ELSE [raised |-> FALSE,
          result |->
            IF op = "+" THEN left + right
            ELSE IF op = "-" THEN left - right
            ELSE IF op = "*" THEN left * right
            ELSE IF op = "/" THEN left \div right
            ELSE IF op = "%" THEN left % right
            ELSE IF op = "&&" THEN Flag(left # 0 /\ right # 0)
            ELSE IF op = "||" THEN Flag(left # 0 \/ right # 0)
            ELSE IF op = "<" THEN Flag(left < right)
            ELSE IF op = ">" THEN Flag(left > right)
            ELSE IF op = "<=" THEN Flag(left <= right)
            ELSE IF op = ">=" THEN Flag(left >= right)
            ELSE IF op = "==" THEN Flag(left = right)
            ELSE IF op = "!=" THEN Flag(left # right)
            ELSE 0]

\* the local variable `result` of constant_folding before its first
\* assignment
Unbound == [bound |-> FALSE, value |-> 0]

Bound(value) == [bound |-> TRUE, value |-> value]

\* the body of the loop of constant_folding, lines 72-93: the instruction
\* appended to new_instructions and the local `result` after it, or raised
\* for an exception (division by zero; `result` read while unbound, for a
\* unary operator other than - and ! when nothing was folded before)
fold_instruction(instr, result) ==
    IF instr.op = "binop"
    THEN LET parts == Split1(instr.src2)
             op == parts[1]
             right == parts[2]
         IN  IF isdigit(instr.src1) /\ isdigit(right)
             THEN LET c == compute_constant(op, StrToInt(instr.src1),
                                            StrToInt(right))
                  IN  [raised |-> c.raised, result |-> Bound(c.result),
                       instr |-> TACInstruction("assign", instr.dest,
                                     IntToStr(c.result), None, None)]
             ELSE [raised |-> FALSE, result |-> result, instr |-> instr]
    ELSE IF instr.op = "unop" /\ isdigit(instr.src2)
    THEN LET r == IF instr.src1 = "-"
                  THEN Bound(0 - StrToInt(instr.src2))
                  ELSE IF instr.src1 = "!"
                  THEN Bound(Flag(StrToInt(instr.src2) = 0))
                  ELSE result
         IN  [raised |-> ~r.bound, result |-> r,
              instr |-> TACInstruction("assign", instr.dest,
                                       IntToStr(r.value), None, None)]
    ELSE [raised |-> FALSE, result |-> result, instr |-> instr]

\* the loop of constant_folding from instruction i on (the test on
\* new_instructions is never true; it makes TLC compute the list so far)
RECURSIVE fold_from(_, _, _, _)
fold_from(instructions, i, new_instructions, result) ==
    IF i > Len(instructions) \/ Len(new_instructions) < 0
    THEN [raised |-> FALSE, instructions |-> new_instructions]
    ELSE LET f == fold_instruction(instructions[i], result) IN
         IF f.raised
         THEN [raised |-> TRUE, instructions |-> instructions]
         ELSE fold_from(instructions, i + 1,
                        Append(new_instructions, f.instr), f.result)

\* [raised, instructions]: self.instructions stays what it was when the
\* loop raises
constant_folding(instructions) == fold_from(instructions, 1, <<>>, Unbound)

(***************************************************************************)
(* dag_generator.py: DAGGenerator.  node_list holds the DAGNodes in        *)
(* creation order; a node is named by its index in node_list (0 for None). *)
(* self.nodes maps a key (op, left, right, value) to the one node built    *)
(* from it, so looking a key up is finding the node with these four        *)
(* fields.                                                                 *)
(***************************************************************************)
DAGNode(op, left, right, value) ==
    [op |-> op, left |-> left, right |-> right, value |-> value,
     users |-> <<>>, temp_var |-> None]

\* DAGGenerator.__init__ / the reset at the top of build_dag
DAGInit == [node_list |-> <<>>, var_to_node |-> EmptyDict]

\* the index of the node stored under key (op, left, right, value), 0 when
\* `key in self.nodes` is false
FindNode(d, op, left, right, value) ==
    LET hits == {n \in 1..Len(d.node_list) :
                    /\ d.node_list[n].op = op
                    /\ d.node_list[n].left = left
                    /\ d.node_list[n].right = right
                    /\ d.node_list[n].value = value}
    IN  IF hits = {} THEN 0 ELSE CHOOSE n \in hits : TRUE

\* node.users.append(user), nothing for node None
AddUser(node_list, node, user) ==
    IF node = 0 THEN node_list
    ELSE [node_list EXCEPT ![node].users = Append(@, user)]

\* the generator afterwards and the node returned
get_or_create_node(d, op, left, right, value) ==
    LET found == FindNode(d, op, left, right, value)
        node == Len(d.node_list) + 1
    IN  IF found # 0 THEN [d |-> d, node |-> found]
        ELSE [d |-> [d EXCEPT !.node_list =
                        AddUser(AddUser(Append(@, DAGNode(op, left, right,
                                                          value)),
                                        left, node),
                                right, node)],
              node |-> node]

get_operand_node(d, operand) ==
    IF operand \in DOMAIN d.var_to_node
    THEN [d |-> d, node |-> d.var_to_node[operand]]
    ELSE get_or_create_node(d, "var", 0, 0, operand)

\* self.var_to_node[instr.dest] = node; node.temp_var = instr.dest
BindDest(r, dest) ==
    [r.d EXCEPT !.var_to_node = DictSet(@, dest, r.node),
                !.node_list[r.node].temp_var = dest]

process_instruction(d, instr) ==
    IF instr.op = "assign"
    THEN BindDest(get_operand_node(d, instr.src1), instr.dest)
    ELSE IF instr.op = "binop"
    THEN LET parts == Split1(instr.src2)
             l == get_operand_node(d, instr.src1)
             r == get_operand_node(l.d, parts[2])
         IN  BindDest(get_or_create_node(r.d, parts[1], l.node, r.node, None),
                      instr.dest)
    ELSE IF instr.op = "unop"
    THEN LET o == get_operand_node(d, instr.src2) IN
         BindDest(get_or_create_node(o.d, instr.src1, o.node, 0, None),
                  instr.dest)
    ELSE d

\* for instr in instructions: self.process_instruction(instr) (the test on
\* d is never true: it has the generator of one iteration evaluated before
\* the next one starts)
RECURSIVE build_dag_from(_, _, _)
build_dag_from(instructions, i, d) ==
    IF i > Len(instructions) \/ Len(d.node_list) < 0 THEN d
    ELSE build_dag_from(instructions, i + 1,
                        process_instruction(d, instructions[i]))

\* the generator after build_dag
build_dag(instructions) == build_dag_from(instructions, 1, DAGInit)

\* [u.temp_var for u in node.users if u.temp_var]
RECURSIVE UserTemps(_, _, _)
UserTemps(node_list, users, i) ==
    IF i > Len(users) THEN <<>>
    ELSE (IF node_list[users[i]].temp_var # None
          THEN <<node_list[users[i]].temp_var>> ELSE <<>>)
         \o UserTemps(node_list, users, i + 1)

\* detect_cse: the values of the cse dict, in insertion order
RECURSIVE detect_cse_from(_, _)
detect_cse_from(node_list, n) ==
    IF n > Len(node_list) THEN <<>>
    ELSE (IF Len(node_list[n].users) > 1 /\ node_list[n].temp_var # None
          THEN <<(<<node_list[n].temp_var>>
                  \o UserTemps(node_list, node_list[n].users, 1))>>
          ELSE <<>>)
         \o detect_cse_from(node_list, n + 1)

detect_cse(d) == detect_cse_from(d.node_list, 1)

(***************************************************************************)
(* optimizer.py, continued: CSE, DCE and optimize.                         *)
(***************************************************************************)
\* the body of the innermost loop of common_subexpression_elimination,
\* lines 140-145
rename_temp(instr, temp, first_temp) ==
    [instr EXCEPT
       !.dest = IF @ = temp THEN first_temp ELSE @,
       !.src1 = IF ~IsList(instr) /\ @ = temp THEN first_temp ELSE @,
       !.src2 = IF @ # None /\ Contains(@, temp)
                THEN Replace(@, temp, first_temp) ELSE @]

\* for temp in temps[1:]: for instr in self.instructions: ...
RECURSIVE rename_temps(_, _, _)
rename_temps(instructions, temps, j) ==
    IF j > Len(temps) THEN instructions
    ELSE rename_temps(
             List([i \in 1..Len(instructions) |->
                      rename_temp(instructions[i], temps[j], temps[1])]),
             temps, j + 1)

\* for node, temps in cse_map.items(): ...
RECURSIVE apply_cse(_, _, _)
apply_cse(instructions, cse_map, n) ==
    IF n > Len(cse_map) THEN instructions
    ELSE apply_cse(rename_temps(instructions, cse_map[n], 2), cse_map, n + 1)

common_subexpression_elimination(instructions) ==
    apply_cse(instructions, detect_cse(build_dag(instructions)), 1)

\* the body of the backward loop of compute_live_variables, lines 165-190
live_step(instr, live_vars) ==
    IF instr.op = "return" /\ instr.dest # None
    THEN live_vars \cup {instr.dest}
    ELSE IF instr.op = "cjump" THEN live_vars \cup {instr.dest}
    ELSE IF instr.op = "assign"
    THEN (IF instr.dest \in live_vars THEN live_vars \cup {instr.src1}
          ELSE live_vars) \ {instr.dest}
    ELSE IF instr.op = "binop"
    THEN (IF instr.dest \in live_vars
          THEN LET parts == Split1(instr.src2) IN
               live_vars \cup {instr.src1}
                         \cup (IF Len(parts) > 1 THEN {parts[2]} ELSE {})
          ELSE live_vars) \ {instr.dest}
    ELSE IF instr.op = "unop"
    THEN (IF instr.dest \in live_vars THEN live_vars \cup {instr.src2}
          ELSE live_vars) \ {instr.dest}
    ELSE IF instr.op = "call"
    THEN (IF instr.dest \in live_vars
          THEN live_vars \cup {instr.src1[a] : a \in 1..Len(instr.src1)}
          ELSE live_vars) \ {instr.dest}
    ELSE IF instr.op = "param" THEN live_vars \cup {instr.dest}
    ELSE live_vars

\* compute_live_variables: self.live_vars after the instructions i, i-1, ...
\* (the test on live_vars is never true: it has the set of one iteration
\* evaluated before the next one starts)
RECURSIVE live_from(_, _, _)
live_from(instructions, i, live_vars) ==
    IF i = 0 \/ Cardinality(live_vars) < 0 THEN live_vars
    ELSE live_from(instructions, i - 1, live_step(instructions[i], live_vars))

compute_live_variables(instructions) ==
    live_from(instructions, Len(instructions), {})

\* dead_code_elimination deleting label instructions as well
dead_code_elimination_labels(instructions) ==
    LET live_vars == compute_live_variables(instructions) IN
    SelectSeq(instructions,
              LAMBDA instr :
                  ~(instr.op \in {"assign", "binop", "unop", "call", "label"}
                    /\ instr.dest \notin live_vars))

dead_code_elimination(instructions) ==
    LET live_vars == compute_live_variables(instructions) IN
    SelectSeq(instructions,
              LAMBDA instr :
                  ~(instr.op \in {"assign", "binop", "unop", "call"}
                    /\ instr.dest \notin live_vars))

\* TACOptimizer.optimize: [raised, instructions], raised for an exception
\* escaping constant_folding
optimize(instructions) ==
    LET folded == constant_folding(constant_propagation(instructions)) IN
    IF folded.raised THEN folded
    ELSE [raised |-> FALSE,
          instructions |->
              dead_code_elimination(
                  common_subexpression_elimination(
                      constant_propagation(folded.instructions)))]

(***************************************************************************)
(* lexer.py: tokenize. The source text is kept as the list of the matches  *)
(* master_pat.finditer finds in it, left to right: lexemes, runs of        *)
(* whitespace and comments; the text is their concatenation.               *)
(***************************************************************************)
Letters == "ABCDEFGHIJKLMNOPQRSTUVWXYZabcdefghijklmnopqrstuvwxyz_"

IsLetterChar(c) == \E l \in 1..Len(Letters) : CharAt(Letters, l) = c

\* the type of the TokenSpec entry that matches the whole lexeme: entries
\* are tried in order
TokenKind(lexeme) ==
    IF CharAt(lexeme, 1) \in {" ", "\t", "\r", "\n"} THEN None
    ELSE IF Len(lexeme) >= 2 /\ SubSeq(lexeme, 1, 2) \in {"//", "/*"}
    THEN None
    ELSE IF lexeme = "int" THEN "INT_KW"
    ELSE IF lexeme = "float" THEN "FLOAT_KW"
    ELSE IF lexeme = "char" THEN "CHAR_KW"
    ELSE IF lexeme = "bool" THEN "BOOL_KW"
    ELSE IF lexeme = "if" THEN "IF"
    ELSE IF lexeme = "else" THEN "ELSE"
    ELSE IF lexeme = "for" THEN "FOR"
    ELSE IF lexeme = "while" THEN "WHILE"
    ELSE IF lexeme = "return" THEN "RETURN"
    ELSE IF lexeme = "void" THEN "VOID"
    ELSE IF lexeme = "print" THEN "PRINT"
    ELSE IF lexeme = "read" THEN "READ"
    ELSE IF lexeme \in {"true", "false"} THEN "BOOL_LIT"
    ELSE IF IsDigitChar(CharAt(lexeme, 1))
    THEN IF Contains(lexeme, ".") THEN "FLOAT_LIT" ELSE "INT_LIT"
    ELSE IF CharAt(lexeme, 1) = "'" THEN "CHAR_LIT"
    ELSE IF CharAt(lexeme, 1) = "\"" THEN "STRING_LIT"
    ELSE IF IsLetterChar(CharAt(lexeme, 1)) THEN "ID"
    ELSE IF lexeme \in {"+", "-", "*", "/", "%"} THEN "ARITH"
    ELSE IF lexeme \in {"<=", ">=", "==", "!=", "<", ">"} THEN "RELOP"
    ELSE IF lexeme \in {"&&", "||", "!"} THEN "LOGIC"
    ELSE IF lexeme = "=" THEN "ASSIGN"
    ELSE "SYM"

\* value.count('\n')
CountNewlines(value) ==
    Cardinality({p \in 1..Len(value) : CharAt(value, p) = "\n"})

\* the loop of tokenize from the i-th match on: start is m.start() of that
\* match, toks the tokens appended so far
RECURSIVE tokenize_from(_, _, _, _, _, _)
tokenize_from(matches, i, start, line_no, line_start, toks) ==
    IF i > Len(matches) \/ Len(toks) < 0
    THEN Append(toks, Token("EOF", "", line_no, 1))
    ELSE LET value == matches[i]
             kind == TokenKind(value)
             end == start + Len(value)
             col == start - line_start + 1
         IN  tokenize_from(
                 matches, i + 1, end, line_no + CountNewlines(value),
                 IF CountNewlines(value) > 0 THEN end ELSE line_start,
                 IF kind = None THEN toks
                 ELSE Append(toks, Token(kind, value, line_no, col)))

tokenize(matches) == tokenize_from(matches, 1, 0, 1, 0, <<>>)

(***************************************************************************)
(* The expression parser as a system: a source text of three primary       *)
(* operands joined by two operators is tokenized, then handed to           *)
(* Parser(tokens).parse_expression().  The lexer alone is run on texts of  *)
(* three tokens with line breaks, indentation and comments between them.   *)
(***************************************************************************)
Idle == "idle"

BinaryOps ==
    {"*", "/", "%", "+", "-", "<", ">", "<=", ">=", "==", "!=", "&&", "||"}

\* the forms of primary operand parse_primary accepts that are used here:
\* an identifier, an integer literal, a call f(v), a parenthesized name
OperandKinds == {"var", "int", "call", "paren"}

OperandNames == <<"a", "b", "c">>

\* the lexemes of the operand of kind k in position p
OperandLexemes(k, p) ==
    IF k = "var" THEN <<OperandNames[p]>>
    ELSE IF k = "int" THEN <<IntToStr(p)>>
    ELSE IF k = "call" THEN <<"f", "(", OperandNames[p], ")">>
    ELSE <<"(", OperandNames[p], ")">>

\* the node that operand stands for
OperandNode(k, p) ==
    IF k = "int" THEN Literal(p, "int")
    ELSE IF k = "call" THEN FuncCall("f", <<VarRef(OperandNames[p])>>)
    ELSE VarRef(OperandNames[p])

ExprInputs ==
    [ops : (BinaryOps \cup {"="}) \X (BinaryOps \cup {"="}),
     kinds : OperandKinds \X OperandKinds \X OperandKinds]

\* the matches of the text that is the lexemes joined by single blanks
RECURSIVE Spaced(_)
Spaced(lexemes) ==
    IF Len(lexemes) <= 1 THEN lexemes
    ELSE <<lexemes[1], " ">> \o Spaced(Tail(lexemes))

\* the source text of an input, as its lexemes
Lexemes(in) ==
    OperandLexemes(in.kinds[1], 1) \o <<in.ops[1]>>
    \o OperandLexemes(in.kinds[2], 2) \o <<in.ops[2]>>
    \o OperandLexemes(in.kinds[3], 3)

\* the longest run of blanks that indents a token
MaxIndent == 2

RECURSIVE Blanks(_)
Blanks(n) == IF n = 0 THEN "" ELSE " " \o Blanks(n - 1)

\* what stands before a token of a text: blanks, a line break, an empty
\* line, a block comment over two lines, a line comment
GapKinds == {"blanks", "newline", "empty line", "block", "line"}

\* the matches of a gap of that kind that ends in n blanks
Gap(kind, n) ==
    IF kind = "blanks" THEN IF n = 0 THEN <<>> ELSE <<Blanks(n)>>
    ELSE IF kind = "newline" THEN <<"\n" \o Blanks(n)>>
    ELSE IF kind = "empty line" THEN <<"\n\n" \o Blanks(n)>>
    ELSE IF kind = "block"
    THEN <<"/*\n*/">> \o (IF n = 0 THEN <<>> ELSE <<Blanks(n)>>)
    ELSE <<"// c", "\n" \o Blanks(n)>>

\* texts of the three tokens x, = and 1, each after a gap
TextInputs ==
    [gaps : GapKinds \X GapKinds \X GapKinds,
     indents : (0..MaxIndent) \X (0..MaxIndent) \X (0..MaxIndent)]

\* the source text of an input, as its matches
Matches(in) ==
    IF "ops" \in DOMAIN in THEN Spaced(Lexemes(in))
    ELSE Gap(in.gaps[1], in.indents[1]) \o <<"x">>
         \o Gap(in.gaps[2], in.indents[2]) \o <<"=">>
         \o Gap(in.gaps[3], in.indents[3]) \o <<"1">>

InitParser ==
    /\ \/ pc = "source" /\ input \in ExprInputs
       \/ pc = "text" /\ input \in TextInputs
    /\ tokens = <<>>
    /\ parsed = Idle
    /\ program = Idle /\ sem = Idle /\ tac = Idle /\ opt = Idle
    /\ asm = Idle /\ interp = Idle /\ machine = Idle /\ compat = Idle
    /\ pass = Idle /\ irgen = Idle

\* tokenize(code)
Tokenize ==
    /\ pc \in {"source", "text"}
    /\ tokens' = tokenize(Matches(input))
    /\ pc' = IF pc = "source" THEN "tokens" ELSE "lexed"
    /\ UNCHANGED <<input, parsed, program, sem, tac, opt, asm, interp, machine,
                   compat, pass, irgen>>

\* Parser(tokens).parse_expression(): pos starts at 0, min_prec at 0
ParseExpression ==
    /\ pc = "tokens"
    /\ parsed' = parse_expression(tokens, 0, 0)
    /\ pc' = "parsed"
    /\ UNCHANGED <<input, tokens, program, sem, tac, opt, asm, interp, machine,
                   compat, pass, irgen>>

NextParser == Tokenize \/ ParseExpression

SpecParser == InitParser /\ [][NextParser]_vars

(***************************************************************************)
(* Properties of the expression parser.                                    *)
(***************************************************************************)
NodeA == OperandNode(input.kinds[1], 1)

NodeB == OperandNode(input.kinds[2], 2)

NodeC == OperandNode(input.kinds[3], 3)

\* the whole text was consumed and this node came out
ParsedAs(node) ==
    /\ ~parsed.err
    /\ parsed.node = node
    /\ parsed.pos = Len(tokens) - 1

\* the operator classes of the precedence table, loosest first
ClassOf(op) ==
    IF op \in {"&&", "||"} THEN 1
    ELSE IF op \in {"<", ">", "<=", ">=", "==", "!="} THEN 2
    ELSE IF op \in {"+", "-"} THEN 3
    ELSE 4

\* the levels of the precedence table
LevelOf(op) ==
    IF op = "=" THEN 0
    ELSE IF op = "&&" THEN 1
    ELSE IF op = "||" THEN 2
    ELSE ClassOf(op) + 1

C3_ClassPrecedence ==
    pc = "parsed" =>
        LET op1 == input.ops[1]
            op2 == input.ops[2]
        IN  /\ (op1 \in BinaryOps /\ op2 \in BinaryOps
                /\ ClassOf(op1) < ClassOf(op2)) =>
                   ParsedAs(Expr(op1, NodeA, Expr(op2, NodeB, NodeC)))
            /\ (op1 \in BinaryOps /\ op2 \in BinaryOps
                /\ ClassOf(op2) < ClassOf(op1)) =>
                   ParsedAs(Expr(op2, Expr(op1, NodeA, NodeB), NodeC))
            /\ (op1 = "=" /\ op2 \in BinaryOps /\ input.kinds[1] = "var") =>
                   ParsedAs(Assignment("a", Expr(op2, NodeB, NodeC)))

C3_Witness ==
    /\ pc = "parsed"
    /\ input.ops = <<"+", "*">>
    /\ input.kinds = <<"int", "call", "paren">>
    /\ parsed.node = Expr("+", Literal(1, "int"),
                          Expr("*", FuncCall("f", <<VarRef("b")>>),
                               VarRef("c")))

Types == {"int", "float", "char", "bool"}

\* the types eval_expr_type can attribute
ExprTypes == Types \cup {"string", "void"}

IntLit(n) == Literal(n, "int")

\* a literal of each type: 1, 1.5, 'c', true, "s"
LitOf(typ) ==
    IF typ = "int" THEN IntLit(1)
    ELSE IF typ = "float" THEN Literal([whole |-> 1, frac |-> "5"], "float")
    ELSE IF typ = "char" THEN Literal("c", "char")
    ELSE IF typ = "bool" THEN Literal(TRUE, "bool")
    ELSE Literal("s", "string")

\* void f() { }
VoidF == Function("void", "f", <<>>, Block(<<>>))

\* int g(int p) { return p; }
IntG == Function("int", "g", <<(<<"int", "p">>)>>,
                 Block(<<ReturnStmt(VarRef("p"))>>))

\* an expression of each type: a literal, or the call f() for void
SrcExpr(typ) == IF typ = "void" THEN FuncCall("f", <<>>) ELSE LitOf(typ)

PrintCall(e) == FuncCall("print", <<e>>)

Ret0 == ReturnStmt(IntLit(0))

\* int main() { stmts }
Main(stmts) == Function("int", "main", <<>>, Block(stmts))

\* ---- family "types":
\*   init:    void f(){} int main(){ DST x = SRC; return 0; }
\*   assign:  void f(){} int main(){ DST x; x = SRC; return 0; }
\*   return:  void f(){} DST h(){ return SRC; } int main(){ return 0; }
TypesInputs ==
    [family : {"types"}, form : {"init", "assign"}, dst : Types,
     src : ExprTypes]
    \cup [family : {"types"}, form : {"return"}, dst : Types \cup {"void"},
          src : ExprTypes]

TypesProgram(in) ==
    IF in.form = "init"
    THEN Program(<<VoidF,
                   Main(<<VarDecl(in.dst, "x", SrcExpr(in.src)), Ret0>>)>>)
    ELSE IF in.form = "assign"
    THEN Program(<<VoidF,
                   Main(<<VarDecl(in.dst, "x", NoNode),
                          Assignment("x", SrcExpr(in.src)), Ret0>>)>>)
    ELSE Program(<<VoidF,
                   Function(in.dst, "h", <<>>,
                            Block(<<ReturnStmt(SrcExpr(in.src))>>)),
                   Main(<<Ret0>>)>>)

\* ---- family "scope":
\*   int main(){ [OUTER x = lit;] NEST { INNER name = lit; } [AFTER] return 0; }
\* NEST is a bare block or the block body of if (true) / if (false) else /
\* while (false) / for (; false;); AFTER is `name = lit;`,
\* `INNER z = name;` or `print(name);`
ScopeInputs ==
    [family : {"scope"}, outer : {"none", "int", "float"},
     nest : {"block", "if", "else", "while", "for"}, name : {"x", "y"},
     inner : {"int", "bool"}, after : {"none", "assign", "use", "print"}]

Nest(kind, block) ==
    IF kind = "block" THEN block
    ELSE IF kind = "if" THEN IfStmt(Literal(TRUE, "bool"), block, NoNode)
    ELSE IF kind = "else"
    THEN IfStmt(Literal(FALSE, "bool"), Block(<<>>), block)
    ELSE IF kind = "while" THEN WhileStmt(Literal(FALSE, "bool"), block)
    ELSE ForStmt(NoNode, Literal(FALSE, "bool"), NoNode, block)

ScopeProgram(in) ==
    Program(<<Main(
        (IF in.outer = "none" THEN <<>>
         ELSE <<VarDecl(in.outer, "x", LitOf(in.outer))>>)
        \o <<Nest(in.nest,
                  Block(<<VarDecl(in.inner, in.name, LitOf(in.inner))>>))>>
        \o (IF in.after = "assign"
            THEN <<Assignment(in.name, LitOf(in.inner))>>
            ELSE IF in.after = "use"
            THEN <<VarDecl(in.inner, "z", VarRef(in.name))>>
            ELSE IF in.after = "print" THEN <<PrintCall(VarRef(in.name))>>
            ELSE <<>>)
        \o <<Ret0>>)>>)

\* ---- family "undeclared":
\*   int g(int p){ return p; } int main(){ [int y = 0;] USE return 0; }
\* USE has the name y in one position
Positions ==
    {"init", "assign_value", "assign_target", "if_cond", "while_cond",
     "for_cond", "for_init", "return", "expr_stmt", "print_arg", "read_arg",
     "call_stmt_arg", "call_expr_arg", "for_update", "for_update_target"}

UndeclaredInputs ==
    [family : {"undeclared"}, position : Positions, declared : BOOLEAN]

YPositive == Expr(">", VarRef("y"), IntLit(0))

UseOfY(position) ==
    IF position = "init" THEN <<VarDecl("int", "x", VarRef("y")), Ret0>>
    ELSE IF position = "assign_value"
    THEN <<VarDecl("int", "x", IntLit(0)), Assignment("x", VarRef("y")), Ret0>>
    ELSE IF position = "assign_target"
    THEN <<Assignment("y", IntLit(1)), Ret0>>
    ELSE IF position = "if_cond"
    THEN <<IfStmt(YPositive, Block(<<>>), NoNode), Ret0>>
    ELSE IF position = "while_cond"
    THEN <<WhileStmt(YPositive, Block(<<>>)), Ret0>>
    ELSE IF position = "for_cond"
    THEN <<ForStmt(NoNode, YPositive, NoNode, Block(<<>>)), Ret0>>
    ELSE IF position = "for_init"
    THEN <<ForStmt(Assignment("y", IntLit(0)), Literal(FALSE, "bool"), NoNode,
                   Block(<<>>)), Ret0>>
    ELSE IF position = "return" THEN <<ReturnStmt(VarRef("y"))>>
    ELSE IF position = "expr_stmt"
    THEN <<Expr("+", VarRef("y"), IntLit(1)), Ret0>>
    ELSE IF position = "print_arg" THEN <<PrintCall(VarRef("y")), Ret0>>
    ELSE IF position = "read_arg"
    THEN <<FuncCall("read", <<VarRef("y")>>), Ret0>>
    ELSE IF position = "call_stmt_arg"
    THEN <<FuncCall("g", <<VarRef("y")>>), Ret0>>
    ELSE IF position = "call_expr_arg"
    THEN <<VarDecl("int", "x", FuncCall("g", <<VarRef("y")>>)), Ret0>>
    ELSE IF position = "for_update"
    THEN <<ForStmt(NoNode, Literal(FALSE, "bool"),
                   Expr("+", VarRef("y"), IntLit(1)), Block(<<>>)), Ret0>>
    ELSE <<ForStmt(NoNode, Literal(FALSE, "bool"), Assignment("y", IntLit(1)),
                   Block(<<>>)), Ret0>>

UndeclaredProgram(in) ==
    Program(<<IntG,
              Main((IF in.declared THEN <<VarDecl("int", "y", IntLit(0))>>
                    ELSE <<>>)
                   \o UseOfY(in.position))>>)

\* ---- family "cond":
\*   void f(){} int main(){ [TYP v = lit;] [{] STMT (COND) { int q = 0; } [}]
\*                          return 0; }
\* STMT is if, while or for (; COND;); COND is a literal of type typ (the
\* call f() for void), the variable v of type typ, `1 < 2` (bool) or
\* `1 + 2` (int)
CondForms ==
    [form : {"lit"}, typ : ExprTypes] \cup [form : {"var"}, typ : Types]
    \cup {[form |-> "rel", typ |-> "bool"], [form |-> "arith", typ |-> "int"]}

CondInputs ==
    [family : {"cond"}, stmt : {"if", "while", "for"}, cond : CondForms,
     nested : BOOLEAN]

CondExpr(c) ==
    IF c.form = "lit" THEN SrcExpr(c.typ)
    ELSE IF c.form = "var" THEN VarRef("v")
    ELSE IF c.form = "rel" THEN Expr("<", IntLit(1), IntLit(2))
    ELSE Expr("+", IntLit(1), IntLit(2))

\* the statement inside the body: int q = 0;
BodyMarker == VarDecl("int", "q", IntLit(0))

CondStmt(in) ==
    LET body == Block(<<BodyMarker>>)
        cond == CondExpr(in.cond)
    IN  IF in.stmt = "if" THEN IfStmt(cond, body, NoNode)
        ELSE IF in.stmt = "while" THEN WhileStmt(cond, body)
        ELSE ForStmt(NoNode, cond, NoNode, body)

CondProgram(in) ==
    Program(<<VoidF,
              Main((IF in.cond.form = "var"
                    THEN <<VarDecl(in.cond.typ, "v", LitOf(in.cond.typ))>>
                    ELSE <<>>)
                   \o (IF in.nested THEN <<Block(<<CondStmt(in)>>)>>
                       ELSE <<CondStmt(in)>>)
                   \o <<Ret0>>)>>)

\* ---- family "params":
\*   int FN(int P1, ..., int Pn){ int L1; int L2; return 0; }
\*   [int main(){ return 0; }]
\* FN is main or g (then main follows); n <= MaxParams; the P are among a, b;
\* the L among a, c, d
RECURSIVE SeqsUpTo(_, _)
SeqsUpTo(S, n) ==
    IF n = 0 THEN {<<>>}
    ELSE LET shorter == SeqsUpTo(S, n - 1) IN
         shorter \cup {Append(q, x) : q \in shorter, x \in S}

ParamsInputs ==
    [family : {"params"}, fn : {"main", "g"},
     params : SeqsUpTo({"a", "b"}, MaxParams),
     locals : {"a", "c", "d"} \X {"a", "c", "d"}]

ParamsProgram(in) ==
    LET fn == Function("int", in.fn,
                  [i \in 1..Len(in.params) |-> <<"int", in.params[i]>>],
                  Block(<<VarDecl("int", in.locals[1], NoNode),
                          VarDecl("int", in.locals[2], NoNode), Ret0>>))
    IN  IF in.fn = "main" THEN Program(<<fn>>)
        ELSE Program(<<fn, Main(<<Ret0>>)>>)

\* ---- family "run": programs of int declarations, assignments, if/else,
\* while/for and print, with literals 0..MaxLit
\*   print:  int main(){ print(A); return 0; }
\*   arith:  int main(){ int x = A; int y = x OP B; print(y); return 0; }
\*   if:     int main(){ int x = A; if (x > B) { print(1); } else { print(0); }
\*                       return 0; }
\*   while:  int main(){ int i = 0; while (i < A) { print(i); i = i + 1; }
\*                       return 0; }
\*   for:    int main(){ for (int i = 0; i < A; i = i + 1) { print(i); }
\*                       return 0; }
RunInputs ==
    [family : {"run"}, shape : {"print", "while", "for"}, a : 0..MaxLit,
     b : {0}, op : {"+"}]
    \cup [family : {"run"}, shape : {"if"}, a : 0..MaxLit, b : 0..MaxLit,
          op : {">"}]
    \cup [family : {"run"}, shape : {"arith"}, a : 0..MaxLit, b : 0..MaxLit,
          op : {"+", "-", "*", "/"}]

IncrementI == Assignment("i", Expr("+", VarRef("i"), IntLit(1)))

RunProgram(in) ==
    IF in.shape = "print"
    THEN Program(<<Main(<<PrintCall(IntLit(in.a)), Ret0>>)>>)
    ELSE IF in.shape = "arith"
    THEN Program(<<Main(<<VarDecl("int", "x", IntLit(in.a)),
                          VarDecl("int", "y",
                                  Expr(in.op, VarRef("x"), IntLit(in.b))),
                          PrintCall(VarRef("y")), Ret0>>)>>)
    ELSE IF in.shape = "if"
    THEN Program(<<Main(<<VarDecl("int", "x", IntLit(in.a)),
                          IfStmt(Expr(">", VarRef("x"), IntLit(in.b)),
                                 Block(<<PrintCall(IntLit(1))>>),
                                 Block(<<PrintCall(IntLit(0))>>)),
                          Ret0>>)>>)
    ELSE IF in.shape = "while"
    THEN Program(<<Main(<<VarDecl("int", "i", IntLit(0)),
                          WhileStmt(Expr("<", VarRef("i"), IntLit(in.a)),
                                    Block(<<PrintCall(VarRef("i")),
                                            IncrementI>>)),
                          Ret0>>)>>)
    ELSE Program(<<Main(<<ForStmt(VarDecl("int", "i", IntLit(0)),
                                  Expr("<", VarRef("i"), IntLit(in.a)),
                                  IncrementI,
                                  Block(<<PrintCall(VarRef("i"))>>)),
                          Ret0>>)>>)

\* ---- family "if":
\*   int main(){ int x = 0; if (COND) THEN [else ELSE] return x; }
\* COND is `true` or `x < 1`; THEN and ELSE are `x = 1;`, `{ x = 1; }`,
\* `{ }` or `if (x < 1) x = 1; else x = 0;`
Branches == {"assign", "block", "empty", "if"}

IfInputs ==
    [family : {"if"}, cond : {"lit", "rel"}, then : Branches,
     else : Branches \cup {"none"}]

XBelow1 == Expr("<", VarRef("x"), IntLit(1))

XGets1 == Assignment("x", IntLit(1))

Branch(kind) ==
    IF kind = "assign" THEN XGets1
    ELSE IF kind = "block" THEN Block(<<XGets1>>)
    ELSE IF kind = "empty" THEN Block(<<>>)
    ELSE IF kind = "if"
    THEN IfStmt(XBelow1, XGets1, Assignment("x", IntLit(0)))
    ELSE NoNode

IfProgram(in) ==
    Program(<<Main(<<VarDecl("int", "x", IntLit(0)),
                     IfStmt(IF in.cond = "lit" THEN Literal(TRUE, "bool")
                            ELSE XBelow1,
                            Branch(in.then), Branch(in.else)),
                     ReturnStmt(VarRef("x"))>>)>>)

\* ---- family "arith": integer literals under every arithmetic operator
\*   binary:  int main(){ int a = L OP R; return a; }     OP in + - * / %
\*   unary:   int main(){ int a = OP L; return a; }       OP in + -
\*   not:     int main(){ bool a = !true; return 0; }
ArithInputs ==
    [family : {"arith"}, shape : {"binary"}, op : {"+", "-", "*", "/", "%"},
     l : 0..MaxLit, r : 0..MaxLit]
    \cup [family : {"arith"}, shape : {"unary"}, op : {"+", "-"},
          l : 0..MaxLit, r : {0}]
    \cup [family : {"arith"}, shape : {"not"}, op : {"!"}, l : {0}, r : {0}]

ArithProgram(in) ==
    IF in.shape = "binary"
    THEN Program(<<Main(<<VarDecl("int", "a",
                                  Expr(in.op, IntLit(in.l), IntLit(in.r))),
                          ReturnStmt(VarRef("a"))>>)>>)
    ELSE IF in.shape = "unary"
    THEN Program(<<Main(<<VarDecl("int", "a",
                                  UnaryExpr(in.op, IntLit(in.l))),
                          ReturnStmt(VarRef("a"))>>)>>)
    ELSE Program(<<Main(<<VarDecl("bool", "a",
                                  UnaryExpr("!", Literal(TRUE, "bool"))),
                          Ret0>>)>>)

\* ---- family "dead": a variable that is written and never read
\*   [G] int main(){ int a = A; int NAME = B; return a; } [G]
\* G is int g(int p){ return p; }, before main, after it, or absent; NAME is
\* b or p
DeadInputs ==
    [family : {"dead"}, g : {"none", "before", "after"}, name : {"b", "p"},
     a : 0..MaxLit, b : 0..MaxLit]

DeadMain(in) ==
    Main(<<VarDecl("int", "a", IntLit(in.a)),
           VarDecl("int", in.name, IntLit(in.b)),
           ReturnStmt(VarRef("a"))>>)

DeadProgram(in) ==
    IF in.g = "before" THEN Program(<<IntG, DeadMain(in)>>)
    ELSE IF in.g = "after" THEN Program(<<DeadMain(in), IntG>>)
    ELSE Program(<<DeadMain(in)>>)

\* ---- family "fold": nested arithmetic over integer literals
\*   int main(){ int a = E; return a; }
\* E is A + B * C, A * B + C or (A + B) * C
FoldLiterals == {2, 3, 4}

FoldInputs ==
    [family : {"fold"}, shape : {"a+b*c", "a*b+c", "(a+b)*c"},
     a : FoldLiterals, b : FoldLiterals, c : FoldLiterals]

FoldExpr(in) ==
    IF in.shape = "a+b*c"
    THEN Expr("+", IntLit(in.a), Expr("*", IntLit(in.b), IntLit(in.c)))
    ELSE IF in.shape = "a*b+c"
    THEN Expr("+", Expr("*", IntLit(in.a), IntLit(in.b)), IntLit(in.c))
    ELSE Expr("*", Expr("+", IntLit(in.a), IntLit(in.b)), IntLit(in.c))

\* the value of E
FoldValue(in) ==
    IF in.shape = "a+b*c" THEN in.a + in.b * in.c
    ELSE IF in.shape = "a*b+c" THEN in.a * in.b + in.c
    ELSE (in.a + in.b) * in.c

FoldProgram(in) ==
    Program(<<Main(<<VarDecl("int", "a", FoldExpr(in)),
                     ReturnStmt(VarRef("a"))>>)>>)

\* ---- family "context": E is 2+3 ("sum") or 5 ("lit")
\*   init:    int main(){ int a = E; return a; }
\*   assign:  int main(){ int a; a = E; return a; }
\*   return:  int main(){ return E; }
\*   print:   int main(){ print(E); return 0; }
Contexts == {"init", "assign", "return", "print"}

ContextInputs == [family : {"context"}, context : Contexts,
                  expr : {"sum", "lit"}]

ContextExpr(form) ==
    IF form = "sum" THEN Expr("+", IntLit(2), IntLit(3)) ELSE IntLit(5)

ContextProgram(in) ==
    LET E == ContextExpr(in.expr)
        RetA == ReturnStmt(VarRef("a"))
    IN  IF in.context = "init"
        THEN Program(<<Main(<<VarDecl("int", "a", E), RetA>>)>>)
        ELSE IF in.context = "assign"
        THEN Program(<<Main(<<VarDecl("int", "a", NoNode),
                              Assignment("a", E), RetA>>)>>)
        ELSE IF in.context = "return"
        THEN Program(<<Main(<<ReturnStmt(E)>>)>>)
        ELSE Program(<<Main(<<PrintCall(E), Ret0>>)>>)

\* ---- family "body":
\*   int main(){ NEST [AFTER] return 0; }
\* NEST is `if (true) BODY`, `if (false) { } else BODY`, `while (false) BODY`
\* or `for (; false;) BODY`, where BODY is `int x = 1;` or `{ int x = 1; }`,
\* or NEST is `for (int x = 1; false;) { }`; AFTER is `int z = x;`,
\* `x = 2;`, `int x = 2;` or `for (int x = 0; false;) { }`
BodyInputs ==
    [family : {"body"}, nest : {"if", "else", "while", "for"},
     wrapped : BOOLEAN,
     after : {"none", "use", "assign", "redeclare", "for"}]
    \cup [family : {"body"}, nest : {"init"}, wrapped : {FALSE},
          after : {"none", "use", "assign", "redeclare", "for"}]

\* for (int x = n; false;) { }
ForDeclaring(n) ==
    ForStmt(VarDecl("int", "x", IntLit(n)), Literal(FALSE, "bool"), NoNode,
            Block(<<>>))

BodyProgram(in) ==
    LET decl == VarDecl("int", "x", IntLit(1))
        body == IF in.wrapped THEN Block(<<decl>>) ELSE decl
    IN  Program(<<Main(
            <<IF in.nest = "init" THEN ForDeclaring(1)
              ELSE Nest(in.nest, body)>>
            \o (IF in.after = "use"
                THEN <<VarDecl("int", "z", VarRef("x"))>>
                ELSE IF in.after = "assign"
                THEN <<Assignment("x", IntLit(2))>>
                ELSE IF in.after = "redeclare"
                THEN <<VarDecl("int", "x", IntLit(2))>>
                ELSE IF in.after = "for" THEN <<ForDeclaring(0)>>
                ELSE <<>>)
            \o <<Ret0>>)>>)

\* ---- family "loop":
\*   int main(){ int i = 0; int s = 0; int u = 0; LOOP return s; }
\* LOOP is `while (i < 0) BODY` or `for ([i = 1]; [i < 0]; [u = 3]) BODY`;
\* BODY is `s = 2;`, `{ s = 2; s = 3; }`, `{ }` or `while (s < 0) s = 2;`
LoopBodies == {"assign", "block", "empty", "while"}

LoopInputs ==
    [family : {"loop"}, stmt : {"while"}, init : {FALSE}, cond : {TRUE},
     update : {FALSE}, body : LoopBodies]
    \cup [family : {"loop"}, stmt : {"for"}, init : BOOLEAN, cond : BOOLEAN,
          update : BOOLEAN, body : LoopBodies]

SGets(n) == Assignment("s", IntLit(n))

Below0(name) == Expr("<", VarRef(name), IntLit(0))

LoopBody(kind) ==
    IF kind = "assign" THEN SGets(2)
    ELSE IF kind = "block" THEN Block(<<SGets(2), SGets(3)>>)
    ELSE IF kind = "empty" THEN Block(<<>>)
    ELSE WhileStmt(Below0("s"), SGets(2))

LoopStmt(in) ==
    IF in.stmt = "while" THEN WhileStmt(Below0("i"), LoopBody(in.body))
    ELSE ForStmt(IF in.init THEN Assignment("i", IntLit(1)) ELSE NoNode,
                 IF in.cond THEN Below0("i") ELSE NoNode,
                 IF in.update THEN Assignment("u", IntLit(3)) ELSE NoNode,
                 LoopBody(in.body))

LoopProgram(in) ==
    Program(<<Main(<<VarDecl("int", "i", IntLit(0)),
                     VarDecl("int", "s", IntLit(0)),
                     VarDecl("int", "u", IntLit(0)),
                     LoopStmt(in), ReturnStmt(VarRef("s"))>>)>>)

Inputs ==
    TypesInputs \cup ScopeInputs \cup UndeclaredInputs \cup CondInputs
    \cup ParamsInputs \cup RunInputs \cup IfInputs \cup ArithInputs
    \cup DeadInputs \cup FoldInputs \cup ContextInputs \cup LoopInputs
    \cup BodyInputs

ProgramOf(in) ==
    IF in.family = "types" THEN TypesProgram(in)
    ELSE IF in.family = "scope" THEN ScopeProgram(in)
    ELSE IF in.family = "undeclared" THEN UndeclaredProgram(in)
    ELSE IF in.family = "cond" THEN CondProgram(in)
    ELSE IF in.family = "params" THEN ParamsProgram(in)
    ELSE IF in.family = "if" THEN IfProgram(in)
    ELSE IF in.family = "arith" THEN ArithProgram(in)
    ELSE IF in.family = "dead" THEN DeadProgram(in)
    ELSE IF in.family = "fold" THEN FoldProgram(in)
    ELSE IF in.family = "context" THEN ContextProgram(in)
    ELSE IF in.family = "loop" THEN LoopProgram(in)
    ELSE IF in.family = "body" THEN BodyProgram(in)
    ELSE RunProgram(in)

(***************************************************************************)
(* The stack machine the pseudo-assembly is written for.  The repository   *)
(* has no executor for it; this one follows the listing's mnemonics: LOAD  *)
(* pushes a literal or a variable (0 when never stored), STORE pops into a *)
(* variable, an operator pops its operands and pushes the result, JTRUE    *)
(* pops and jumps when the value is truthy, PUSH appends an argument, CALL *)
(* print outputs the argument pushed last, RET ends the run.               *)
(***************************************************************************)
OperandValue(m, x) ==
    IF isdigit(x) THEN StrToInt(x)
    ELSE IF Len(x) > 1 /\ CharAt(x, 1) = "-" /\ isdigit(SubSeq(x, 2, Len(x)))
    THEN 0 - StrToInt(SubSeq(x, 2, Len(x)))
    ELSE IF x = "True" THEN 1
    ELSE IF x = "False" THEN 0
    ELSE IF x \in DOMAIN m.mem THEN m.mem[x]
    ELSE 0

\* the index of the line `label:`, 0 when there is none
LabelIndex(lines, label) ==
    LET hits == {i \in 1..Len(lines) : lines[i] = label \o ":"} IN
    IF hits = {} THEN 0 ELSE CHOOSE i \in hits : \A j \in hits : i <= j

MachineInit(lines) ==
    [ip |-> LabelIndex(lines, "main"), stack |-> <<>>, args |-> <<>>,
     mem |-> EmptyDict, out |-> <<>>, steps |-> 0,
     st |-> IF LabelIndex(lines, "main") = 0 THEN "fault" ELSE "running"]

Mnemonics ==
    {"ADD", "SUB", "MUL", "DIV", "MOD", "AND", "OR", "LT", "GT", "LE", "GE",
     "EQ", "NE"}

MachineOp(opc, l, r) ==
    IF opc = "ADD" THEN l + r
    ELSE IF opc = "SUB" THEN l - r
    ELSE IF opc = "MUL" THEN l * r
    ELSE IF opc = "DIV" THEN l \div r
    ELSE IF opc = "MOD" THEN l % r
    ELSE IF opc = "AND" THEN Flag(l # 0 /\ r # 0)
    ELSE IF opc = "OR" THEN Flag(l # 0 \/ r # 0)
    ELSE IF opc = "LT" THEN Flag(l < r)
    ELSE IF opc = "GT" THEN Flag(l > r)
    ELSE IF opc = "LE" THEN Flag(l <= r)
    ELSE IF opc = "GE" THEN Flag(l >= r)
    ELSE IF opc = "EQ" THEN Flag(l = r)
    ELSE Flag(l # r)

Pop(stack) == SubSeq(stack, 1, Len(stack) - 1)

Top(stack) == stack[Len(stack)]

\* the machine after executing the line at ip
MachineExec(lines, m) ==
    LET line == lines[m.ip]
        parts == Split1(line)
        opc == parts[1]
        arg == IF Len(parts) > 1 THEN parts[2] ELSE ""
        next == [m EXCEPT !.ip = @ + 1, !.steps = @ + 1]
        fault == [m EXCEPT !.st = "fault", !.steps = @ + 1]
    IN
    IF opc = "RET" THEN [m EXCEPT !.st = "halted", !.steps = @ + 1]
    ELSE IF opc = "LOAD"
    THEN [next EXCEPT !.stack = Append(@, OperandValue(m, arg))]
    ELSE IF opc = "PUSH"
    THEN [next EXCEPT !.args = Append(@, OperandValue(m, arg))]
    ELSE IF opc = "STORE"
    THEN IF m.stack = <<>> THEN fault
         ELSE [next EXCEPT !.mem = DictSet(@, arg, Top(m.stack)),
                           !.stack = Pop(@)]
    ELSE IF opc \in Mnemonics
    THEN IF Len(m.stack) < 2 \/ (opc \in {"DIV", "MOD"} /\ Top(m.stack) = 0)
         THEN fault
         ELSE [next EXCEPT !.stack =
                  Append(Pop(Pop(@)),
                         MachineOp(opc, Top(Pop(m.stack)), Top(m.stack)))]
    ELSE IF opc \in {"NEG", "NOT"}
    THEN IF m.stack = <<>> THEN fault
         ELSE [next EXCEPT !.stack =
                  Append(Pop(@), IF opc = "NEG" THEN 0 - Top(m.stack)
                                 ELSE Flag(Top(m.stack) = 0))]
    ELSE IF opc = "JMP"
    THEN IF LabelIndex(lines, arg) = 0 THEN fault
         ELSE [next EXCEPT !.ip = LabelIndex(lines, arg)]
    ELSE IF opc = "JTRUE"
    THEN IF m.stack = <<>> \/ LabelIndex(lines, arg) = 0 THEN fault
         ELSE [next EXCEPT !.stack = Pop(@),
                           !.ip = IF Top(m.stack) # 0
                                  THEN LabelIndex(lines, arg) ELSE m.ip + 1]
    ELSE IF opc = "CALL"
    THEN IF arg = "print" /\ m.args # <<>>
         THEN [next EXCEPT !.out = Append(@, Top(m.args)), !.args = <<>>,
                           !.stack = Append(@, 0)]
         ELSE [m EXCEPT !.st = "unmodelled", !.steps = @ + 1]
    ELSE next

\* one step: falling off the end of the listing halts the machine
MachineStepOf(lines, m) ==
    IF m.ip > Len(lines) THEN [m EXCEPT !.st = "halted", !.steps = @ + 1]
    ELSE MachineExec(lines, m)

(***************************************************************************)
(* The pipeline of main.compile_and_run on a parsed program: analyze,      *)
(* generate, optimize, codegen, interpret; then the listing is executed.   *)
(***************************************************************************)
Init ==
    /\ pc = "start"
    /\ input \in Inputs
    /\ program = ProgramOf(input)
    /\ tokens = Idle /\ parsed = Idle
    /\ sem = Idle /\ tac = Idle /\ opt = Idle
    /\ asm = Idle /\ interp = Idle /\ machine = Idle /\ compat = Idle
    /\ pass = Idle /\ irgen = Idle

\* SemanticAnalyzer(prog).analyze(): a SemanticError ends the run
Analyze ==
    /\ pc = "start"
    /\ sem' = analyze(program)
    /\ pc' = IF sem'.err = "" THEN "analyzed" ELSE "rejected"
    /\ UNCHANGED <<input, tokens, parsed, program, tac, opt, asm, interp,
                   machine, compat, pass, irgen>>

\* type_compatible applied to a pair of types
TypeCompatible ==
    /\ pc = "start"
    /\ input.family = "types"
    /\ \E dest \in ExprTypes, src \in ExprTypes :
           compat' = [dest |-> dest, src |-> src,
                      result |-> type_compatible(dest, src)]
    /\ pc' = "compat"
    /\ UNCHANGED <<input, tokens, parsed, program, sem, tac, opt, asm, interp,
                   machine, pass, irgen>>

\* IRGenerator().generate(prog)
GenerateIR ==
    /\ pc = "analyzed"
    /\ irgen' = generate_on(IRInit, program)
    /\ tac' = irgen'.instructions
    /\ pc' = "ir"
    /\ UNCHANGED <<input, tokens, parsed, program, sem, opt, asm, interp,
                   machine, compat, pass>>

\* TACOptimizer(tac).optimize(): an exception ends the run
Optimize ==
    /\ pc = "ir"
    /\ opt' = optimize(tac)
    /\ pc' = IF opt'.raised THEN "crashed" ELSE "optimized"
    /\ UNCHANGED <<input, tokens, parsed, program, sem, tac, asm, interp,
                   machine, compat, pass, irgen>>

\* CodeGenerator().generate(optimized_tac)
Codegen ==
    /\ pc = "optimized"
    /\ asm' = codegen(opt.instructions)
    /\ pc' = "asm"
    /\ UNCHANGED <<input, tokens, parsed, program, sem, tac, opt, interp,
                   machine, compat, pass, irgen>>

\* CodeGenerator().generate(tac) on the TAC as the generator returned it
CodegenGenerated ==
    /\ pc = "ir"
    /\ pass' = [name |-> "codegen", instructions |-> tac,
                asm |-> codegen(tac)]
    /\ pc' = "pass"
    /\ UNCHANGED <<input, tokens, parsed, program, sem, tac, opt, asm, interp,
                   machine, compat, irgen>>

\* Interpreter(prog).run(), with no input lines to read
RunInterpreter ==
    /\ pc = "asm"
    /\ interp' = run(program, <<>>)
    /\ pc' = "ran"
    /\ UNCHANGED <<input, tokens, parsed, program, sem, tac, opt, asm,
                   machine, compat, pass, irgen>>

LoadMachine ==
    /\ pc = "ran"
    /\ machine' = MachineInit(asm)
    /\ pc' = "machine"
    /\ UNCHANGED <<input, tokens, parsed, program, sem, tac, opt, asm, interp,
                   compat, pass, irgen>>

MachineStep ==
    /\ pc = "machine"
    /\ machine.st = "running"
    /\ machine.steps < MaxSteps
    /\ machine' = MachineStepOf(asm, machine)
    /\ UNCHANGED <<pc, input, tokens, parsed, program, sem, tac, opt, asm,
                   interp, compat, pass, irgen>>

\* a second generate(prog) on the IRGenerator that produced tac
GenerateAgain ==
    /\ pc = "ir"
    /\ pass' = [name |-> "generate",
                instructions |-> generate_on(irgen, program).instructions]
    /\ pc' = "pass"
    /\ UNCHANGED <<input, tokens, parsed, program, sem, tac, opt, asm, interp,
                   machine, compat, irgen>>

\* the source compiled a second time with the IRGenerator and the
\* CodeGenerator the first compilation used: generate, a new
\* TACOptimizer(tac).optimize(), generate
CompileAgain ==
    /\ pc = "asm"
    /\ \E tac2 \in {generate_on(irgen, program).instructions} :
           \E opt2 \in {optimize(tac2)} :
               pass' = [name |-> "compile", tac |-> tac2, opt |-> opt2,
                        asm |-> codegen_on(asm, opt2.instructions)]
    /\ pc' = "pass"
    /\ UNCHANGED <<input, tokens, parsed, program, sem, tac, opt, asm, interp,
                   machine, compat, irgen>>

Next ==
    \/ Analyze
    \/ TypeCompatible
    \/ GenerateIR
    \/ GenerateAgain
    \/ CompileAgain
    \/ CodegenGenerated
    \/ Optimize
    \/ Codegen
    \/ RunInterpreter
    \/ LoadMachine
    \/ MachineStep

Spec == Init /\ [][Next]_vars

(***************************************************************************)
(* The optimizer's passes one at a time: TACOptimizer(instructions) built  *)
(* on a list of instructions, and one pass method called on it.  In the    *)
(* lists of TacInputs instruction k defines tk from the variable a, the    *)
(* literal 1 and the temporary before it, and the list may end in a        *)
(* return; StoreInputs assign x and y more than once; FoldingInputs hold   *)
(* operations on literals.                                                 *)
(***************************************************************************)
MaxTac == 3

TempName(k) == "t" \o IntToStr(k)

\* what instruction k may read
TacOperands(k) == {"a"} \cup (IF k > 1 THEN {TempName(k - 1)} ELSE {})

\* the instructions that may stand at position k
TacChoices(k) ==
    {TACInstruction("assign", TempName(k), x, None, None) :
         x \in TacOperands(k) \cup {"1"}}
    \cup {TACInstruction("binop", TempName(k), x, "+ " \o y, None) :
              x \in TacOperands(k), y \in TacOperands(k)}
    \cup {TACInstruction("unop", TempName(k), "-", x, None) :
              x \in TacOperands(k)}

\* the lists of n assign, binop and unop instructions
RECURSIVE TacBodies(_)
TacBodies(n) ==
    IF n = 0 THEN {<<>>}
    ELSE {Append(body, i) : body \in TacBodies(n - 1), i \in TacChoices(n)}

\* nothing, `return a` or the return of the last temporary
TacEndings(body) ==
    {<<>>} \cup {<<TACInstruction("return", x, None, None, None)>> :
                     x \in {"a", TempName(Len(body))}}

TacInputs ==
    UNION {{body \o ending : ending \in TacEndings(body)} :
              body \in UNION {TacBodies(n) : n \in 1..MaxTac}}

\* instructions for constant_propagation on variables that are assigned
\* more than once: x and y get 1, 2, x or y
StoreChoices ==
    {TACInstruction("assign", v, x, None, None) :
         v \in {"x", "y"}, x \in {"1", "2", "x", "y"}}

\* the straight-line lists of up to MaxTac of them
StoreInputs ==
    UNION {{l \in [1..n -> StoreChoices] : l[1].src1 \in {"1", "2"}} :
              n \in 1..MaxTac}

\* the operators a unop instruction may carry
UnaryOps == {"-", "!", "+"}

\* instructions for constant_folding: a binop and a unop of tk over the
\* literals 0, 2, 3 and the variable a, `tk = 5`, `return a`
FoldingChoices(k) ==
    {TACInstruction("binop", TempName(k), x, op \o " " \o y, None) :
         x \in {"0", "2", "a"}, op \in BinaryOps, y \in {"0", "3", "a"}}
    \cup {TACInstruction("unop", TempName(k), op, x, None) :
              op \in UnaryOps, x \in {"0", "2", "a"}}
    \cup {TACInstruction("assign", TempName(k), "5", None, None),
           TACInstruction("return", "a", None, None, None)}

\* what stands first in a list of two of them
FoldingFirst ==
    {TACInstruction("binop", "t1", "2", "+ 3", None),
     TACInstruction("binop", "t1", "a", "+ 3", None),
     TACInstruction("unop", "t1", "-", "2", None),
     TACInstruction("assign", "t1", "5", None, None)}

FoldingInputs ==
    {<<i>> : i \in FoldingChoices(1)}
    \cup {<<i, j>> : i \in FoldingFirst, j \in FoldingChoices(2)}

\* TACOptimizer(instructions)
InitPasses ==
    /\ pc = "tac"
    /\ tac \in TacInputs \cup FoldingInputs \cup StoreInputs
    /\ input = [family |-> "tac"]
    /\ program = Idle /\ tokens = Idle /\ parsed = Idle
    /\ sem = Idle /\ opt = Idle
    /\ asm = Idle /\ interp = Idle /\ machine = Idle /\ compat = Idle
    /\ pass = Idle /\ irgen = Idle

\* the pass has run on self.instructions
Ran(name, instructions) ==
    /\ pass' = [name |-> name, before |-> tac, instructions |-> instructions]
    /\ UNCHANGED <<input, tokens, parsed, program, sem, tac, opt, asm,
                   interp, machine, compat, irgen>>

\* optimizer.constant_propagation()
ConstantPropagation ==
    /\ pc = "tac"
    /\ pc' = "propagated"
    /\ Ran("constant_propagation", constant_propagation(tac))

\* optimizer.constant_folding(): raised when an exception escapes it
ConstantFolding ==
    /\ pc = "tac"
    /\ pc' = "folded"
    /\ LET folded == constant_folding(tac) IN
       pass' = [name |-> "constant_folding", before |-> tac,
                instructions |-> folded.instructions,
                raised |-> folded.raised]
    /\ UNCHANGED <<input, tokens, parsed, program, sem, tac, opt, asm,
                   interp, machine, compat, irgen>>

\* optimizer.dead_code_elimination()
DeadCodeElimination ==
    /\ pc = "tac"
    /\ pc' = "eliminated"
    /\ Ran("dead_code_elimination", dead_code_elimination(tac))

\* optimizer.common_subexpression_elimination()
CommonSubexpressionElimination ==
    /\ pc = "tac"
    /\ pc' = "cse"
    /\ Ran("cse", common_subexpression_elimination(tac))

\* optimizer.common_subexpression_elimination() a second time: `before` is
\* the list the first call left
CommonSubexpressionEliminationAgain ==
    /\ pc = "cse"
    /\ pc' = "cse twice"
    /\ pass' = [name |-> "cse twice", before |-> pass.instructions,
                instructions |->
                    common_subexpression_elimination(pass.instructions)]
    /\ UNCHANGED <<input, tokens, parsed, program, sem, tac, opt, asm,
                   interp, machine, compat, irgen>>

NextPasses ==
    \/ ConstantPropagation
    \/ ConstantFolding
    \/ DeadCodeElimination
    \/ CommonSubexpressionElimination
    \/ CommonSubexpressionEliminationAgain

SpecPasses == InitPasses /\ [][NextPasses]_vars

(***************************************************************************)
(* Properties of the semantic analyzer.                                    *)
(***************************************************************************)
\* the analyzer has run on the program
Analyzed == pc \notin {"start", "compat"}

\* the statements walk_stmt was called on
Walked == {sem.log[i] : i \in 1..Len(sem.log)}

\* the name is declared by the block only, not by the enclosing scope
BlockLocal == ~(input.outer # "none" /\ input.name = "x")

\* C5: a declaration inside a nested block of a name the enclosing scope
\* has declared is accepted (it shadows the outer one): no SemanticError.
C5_ShadowAccepted ==
    (Analyzed /\ input.family = "scope" /\ ~BlockLocal
     /\ input.after = "none") => sem.err = ""

\* C6: a variable declared inside a nested block does not leak: when the
\* block has ended the enclosing symbol table is what it was on entry, and
\* every later use of or assignment to the name raises SemanticError.
C6_NoLeak ==
    (Analyzed /\ input.family = "scope" /\ BlockLocal) =>
        /\ input.after = "none" =>
               /\ sem.err = ""
               /\ DOMAIN sem.symtab =
                      (IF input.outer = "none" THEN {} ELSE {"x"})
        /\ input.after # "none" => sem.err # ""

\* C7: a program that uses or assigns an undeclared variable, in whatever
\* position, is rejected with SemanticError.
C7_UndeclaredRejected ==
    (Analyzed /\ input.family = "undeclared" /\ ~input.declared) =>
        sem.err # ""

\* the compatibility relation of the specification
Compatible(dst, src) ==
    \/ dst = src
    \/ <<dst, src>> \in {<<"float", "int">>, <<"int", "char">>,
                         <<"char", "int">>}

\* the SemanticError of a mismatch in each form of the "types" family
MismatchMessage(in) ==
    IF in.form = "init"
    THEN "Type mismatch initializing x: " \o in.dst \o " <- " \o in.src
    ELSE IF in.form = "assign"
    THEN "Type mismatch in assignment to x: " \o in.dst \o " <- " \o in.src
    ELSE "Return type mismatch: expected " \o in.dst \o ", got " \o in.src

\* C8: type_compatible(dst, src) is true exactly when dst = src or
\* (dst, src) is (float, int), (int, char) or (char, int); every other pair
\* makes an initializer, an assignment or a return raise SemanticError, and
\* every pair of the relation is accepted.
C8_TypeCompatible ==
    /\ pc = "compat" =>
           compat.result = Compatible(compat.dest, compat.src)
    /\ (Analyzed /\ input.family = "types") =>
           sem.err = (IF Compatible(input.dst, input.src) THEN ""
                      ELSE MismatchMessage(input))

C8_Witness ==
    /\ pc = "rejected"
    /\ input.family = "types"
    /\ input.form = "init" /\ input.dst = "float" /\ input.src = "char"
    /\ sem.err = "Type mismatch initializing x: float <- char"

\* C9: an if, while or for whose condition has a type other than bool is
\* rejected with SemanticError and its body is not analyzed; with a bool
\* condition the body is analyzed.
C9_ConditionMustBeBool ==
    (Analyzed /\ input.family = "cond") =>
        IF input.cond.typ # "bool"
        THEN /\ sem.err = "Condition in " \o input.stmt
                          \o " must be bool, got " \o input.cond.typ
             /\ BodyMarker \notin Walked
        ELSE /\ sem.err = ""
             /\ BodyMarker \in Walked

C9_Witness ==
    /\ pc = "rejected"
    /\ input.family = "cond"
    /\ input.stmt = "while" /\ input.cond = [form |-> "var", typ |-> "int"]
    /\ sem.err = "Condition in while must be bool, got int"
    /\ BodyMarker \notin Walked

\* C10: in an accepted program the parameter names of a function are
\* pairwise distinct and no name is declared twice in one scope.
C10_UniqueNames ==
    (Analyzed /\ input.family = "params" /\ sem.err = "") =>
        /\ \A i, j \in 1..Len(input.params) :
               i # j => input.params[i] # input.params[j]
        /\ input.locals[1] # input.locals[2]

(***************************************************************************)
(* Interpreter against generated code.                                     *)
(***************************************************************************)
\* the values the interpreter printed, one per print call
Printed == [i \in 1..Len(interp.out) |-> interp.out[i][1].v]

\* C1: for a program of int declarations, assignments, if/else, while/for
\* and print, the values Interpreter.run prints are the values the stack
\* machine prints when it executes the generated pseudo-assembly.
C1_SameOutput ==
    (pc = "machine" /\ input.family = "run" /\ machine.st = "halted"
     /\ interp.st = "ok") => machine.out = Printed

(***************************************************************************)
(* Properties of the IR generator.                                         *)
(***************************************************************************)
\* the instruction list returned by generate is at hand
Generated ==
    pc \in {"ir", "pass", "optimized", "crashed", "asm", "ran", "machine"}

\* a name of the form t<digits> / L<digits>
IsCounterName(c, name) ==
    /\ Len(name) >= 2
    /\ CharAt(name, 1) = c
    /\ isdigit(SubSeq(name, 2, Len(name)))

\* the instructions that define a fresh temporary, in sequence order: every
\* binop, unop and call, and the assign of a literal to a temporary
DefinesTemp(i) ==
    \/ i.op \in {"binop", "unop", "call"}
    \/ i.op = "assign" /\ IsCounterName("t", i.dest)

TempDefs(instructions) == SelectSeq(instructions, DefinesTemp)

\* the label instructions of generated labels (not of function names)
IsGeneratedLabel(i) == i.op = "label" /\ IsCounterName("L", i.label)

GeneratedLabels(instructions) == SelectSeq(instructions, IsGeneratedLabel)

\* C11: in the list generate returns, the k-th instruction defining a fresh
\* temporary has dest tk, the labels are L1, L2, ... without gaps or
\* repeats, and a second generate on the same IRGenerator returns the same
\* list, the counters having been reset.
C11_CountersFromOne ==
    /\ Generated =>
           /\ \A k \in 1..Len(TempDefs(tac)) :
                  TempDefs(tac)[k].dest = "t" \o IntToStr(k)
           /\ {GeneratedLabels(tac)[k].label :
                   k \in 1..Len(GeneratedLabels(tac))}
                  = {"L" \o IntToStr(k) : k \in 1..Len(GeneratedLabels(tac))}
    /\ (pc = "pass" /\ pass.name = "generate") => pass.instructions = tac

C11_Witness ==
    /\ pc = "pass" /\ pass.name = "generate"
    /\ input.family = "run" /\ input.shape = "while"
    /\ Len(TempDefs(tac)) >= 5
    /\ Len(GeneratedLabels(tac)) = 2
    /\ pass.instructions = tac

\* optimize has returned an instruction list
Optimized == pc \in {"optimized", "asm", "ran", "machine"}

\* every jump and cjump of the list goes to a label instruction of the list
JumpsResolved(instructions) ==
    \A i \in 1..Len(instructions) :
        instructions[i].op \in {"jump", "cjump"} =>
            \E j \in 1..Len(instructions) :
                /\ instructions[j].op = "label"
                /\ instructions[j].label = instructions[i].label

IsControl(i) == i.op \in {"label", "jump", "cjump"}

\* the label, jump and cjump instructions of the list, as <<op, label>>
ControlOf(instructions) ==
    LET c == SelectSeq(instructions, IsControl)
    IN  [k \in 1..Len(c) |-> <<c[k].op, c[k].label>>]

\* C12: in the TAC generate returns and in the TAC optimize returns for it,
\* every jump and cjump names the label of a label instruction of the same
\* list; optimize deletes no label instruction and rewrites no label field.
C12_JumpsResolved ==
    /\ Generated => JumpsResolved(tac)
    /\ Optimized =>
           /\ JumpsResolved(opt.instructions)
           /\ ControlOf(opt.instructions) = ControlOf(tac)

C12_Witness ==
    /\ pc = "optimized"
    /\ input.family = "run" /\ input.shape = "for"
    /\ Len(opt.instructions) < Len(tac)
    /\ Len(ControlOf(opt.instructions)) = 5
    /\ JumpsResolved(opt.instructions)

\* the number of instructions generated for a condition and for a branch of
\* the "if" family
CondLen(cond) == IF cond = "lit" THEN 1 ELSE 2

BranchLen(kind) ==
    IF kind \in {"assign", "block"} THEN 2
    ELSE IF kind = "if" THEN 10
    ELSE 0

\* the number of IfStmt nodes of a program of the "if" family
IfCount(in) ==
    1 + (IF in.then = "if" THEN 1 ELSE 0) + (IF in.else = "if" THEN 1 ELSE 0)

CountOp(instructions, op) ==
    Cardinality({i \in 1..Len(instructions) : instructions[i].op = op})

\* C13: for an IfStmt the generator emits the condition's code, one cjump on
\* the condition operand to the else label, the then-branch's code, one jump
\* to the end label, the else label, the else-branch's code if any, the end
\* label; the two labels are distinct and no other statement has them.
C13_IfShape ==
    (Generated /\ input.family = "if") =>
        LET ic == 3 + CondLen(input.cond) + 1
            ij == ic + BranchLen(input.then) + 1
            ile == ij + 1
            ild == ile + BranchLen(input.else) + 1
        IN  /\ Len(tac) = ild + 1
            /\ tac[ic].op = "cjump"
            /\ tac[ic].dest = tac[ic - 1].dest
            /\ tac[ij].op = "jump"
            /\ tac[ile].op = "label" /\ tac[ile].label = tac[ic].label
            /\ tac[ild].op = "label" /\ tac[ild].label = tac[ij].label
            /\ tac[ic].label # tac[ij].label
            /\ \A k \in 1..Len(tac) :
                   (tac[k].op = "label" /\ k \notin {ile, ild}) =>
                       tac[k].label \notin {tac[ic].label, tac[ij].label}
            /\ CountOp(tac, "cjump") = IfCount(input)
            /\ CountOp(tac, "jump") = IfCount(input)
            /\ Len(GeneratedLabels(tac)) = 2 * IfCount(input)

C13_Witness ==
    /\ pc = "ir"
    /\ input.family = "if" /\ input.cond = "rel"
    /\ input.then = "if" /\ input.else = "assign"
    /\ tac[6].op = "cjump" /\ tac[17].op = "jump"
    /\ tac[18] = TACInstruction("label", None, None, None, tac[6].label)
    /\ tac[21] = TACInstruction("label", None, None, None, tac[17].label)


(***************************************************************************)
(* Properties of the optimizer's passes.                                   *)
(***************************************************************************)
\* the two lists have the same length and agree on the field at every
\* position
SameField(before, after, field) ==
    /\ Len(after) = Len(before)
    /\ \A i \in 1..Len(before) : after[i][field] = before[i][field]

\* C14: constant_propagation leaves the op, the dest and the label of every
\* instruction as they were, and the number and order of the instructions.
C14_OperandsOnly ==
    pc = "propagated" =>
        /\ SameField(pass.before, pass.instructions, "op")
        /\ SameField(pass.before, pass.instructions, "dest")
        /\ SameField(pass.before, pass.instructions, "label")

\* C15: on the TAC generated from an accepted program, whatever integer
\* literals and arithmetic operators it holds, optimize returns an
\* instruction list: no exception escapes it.
C15_Total == pc # "crashed"

\* C16: dead_code_elimination keeps every assign, binop, unop and call
\* whose dest is read by a later instruction (as src1, as the right operand
\* in src2, as the operand of a unop, or as the dest of a return, cjump or
\* param) before it is defined again.
Reads(instr, name) ==
    \/ instr.op \in {"assign", "binop"} /\ instr.src1 = name
    \/ instr.op = "binop" /\ Split1(instr.src2)[2] = name
    \/ instr.op = "unop" /\ instr.src2 = name
    \/ instr.op \in {"return", "cjump", "param"} /\ instr.dest = name
    \/ instr.op = "call" /\ \E a \in 1..Len(instr.src1) : instr.src1[a] = name

Defines(instr, name) ==
    instr.op \in {"assign", "binop", "unop", "call"} /\ instr.dest = name

\* instruction i of the list defines a name that a later instruction reads
\* before any instruction in between defines it again
UsedLater(instructions, i) ==
    \E j \in (i + 1)..Len(instructions) :
        /\ Reads(instructions[j], instructions[i].dest)
        /\ \A k \in (i + 1)..(j - 1) :
               ~Defines(instructions[k], instructions[i].dest)

\* the instruction is one of the instructions of the list
Survives(instr, instructions) ==
    \E k \in 1..Len(instructions) : instructions[k] = instr

C16_UsedResultsSurvive ==
    pc = "eliminated" =>
        \A i \in 1..Len(pass.before) :
            (Defines(pass.before[i], pass.before[i].dest)
             /\ UsedLater(pass.before, i))
                => Survives(pass.before[i], pass.instructions)

\* C17: in the list optimize returns there is no assign of a decimal
\* literal whose dest no later instruction reads.
C17_NoDeadLiteral ==
    Optimized =>
        \A i \in 1..Len(opt.instructions) :
            (opt.instructions[i].op = "assign"
             /\ isdigit(opt.instructions[i].src1))
                => \E j \in (i + 1)..Len(opt.instructions) :
                       Reads(opt.instructions[j], opt.instructions[i].dest)

\* C18: for `int a = E; return a;` with E a nested arithmetic expression
\* over integer literals, the list optimize returns has an assign whose
\* src1 is the decimal value of E.
C18_FoldedValue ==
    (Optimized /\ input.family = "fold") =>
        \E i \in 1..Len(opt.instructions) :
            /\ opt.instructions[i].op = "assign"
            /\ opt.instructions[i].src1 = IntToStr(FoldValue(input))

\* C19: on a list of assign, binop and unop instructions, a second
\* common_subexpression_elimination changes nothing the first one left.
OnlyArithmetic(instructions) ==
    \A i \in 1..Len(instructions) :
        instructions[i].op \in {"assign", "binop", "unop"}

C19_Idempotent ==
    (pc = "cse twice" /\ OnlyArithmetic(tac)) =>
        pass.instructions = pass.before

\* C20: the optimized TAC of the program with 2+3 in an expression context
\* is, instruction by instruction, the optimized TAC of the program with 5
\* in its place.
WithLiteral(in) == ContextProgram([in EXCEPT !.expr = "lit"])

C20_SameAsLiteral ==
    (Optimized /\ input.family = "context") =>
        opt.instructions = optimize(generate(WithLiteral(input))).instructions

(***************************************************************************)
(* Properties of the pipeline as a whole.                                  *)
(***************************************************************************)
\* C21: compiling the same source a second time, with the IRGenerator and
\* the CodeGenerator of the first compilation, gives the same TAC, the same
\* optimized TAC and the same assembly lines: nothing the first compilation
\* left in the objects reaches the second.
C21_Deterministic ==
    (pc = "pass" /\ pass.name = "compile") =>
        /\ pass.tac = tac
        /\ pass.opt = opt
        /\ pass.asm = asm

C21_Witness ==
    /\ pc = "pass" /\ pass.name = "compile"
    /\ input.family = "run" /\ input.shape = "while"
    /\ irgen.temp_count > 0 /\ irgen.label_count = 2
    /\ Len(asm) > 0
    /\ pass.asm = asm

(***************************************************************************)
(* Properties of the scope of declarations in bodies and for inits.        *)
(***************************************************************************)
AlreadyDeclared == "Variable x already declared"

C29_InitDeclares ==
    (Analyzed /\ input.family = "body" /\ input.nest = "init") =>
        /\ input.after = "none" =>
               sem.err = "" /\ "x" \in DOMAIN sem.symtab
        /\ input.after \in {"use", "assign"} => sem.err = ""
        /\ input.after \in {"redeclare", "for"} => sem.err = AlreadyDeclared

C29_Witness ==
    /\ pc = "rejected"
    /\ input.family = "body" /\ input.nest = "init"
    /\ input.after = "for"
    /\ sem.err = AlreadyDeclared
    /\ DOMAIN sem.symtab = {"x"}

\* what an instruction is in the layout of a loop: a label, a jump or a
\* conditional jump with its target, the condition's binop, an assign to a
\* variable of the program; `-` for the assign that loads a literal
Mark(instr) ==
    IF instr.op = "label" THEN instr.label \o ":"
    ELSE IF instr.op = "jump" THEN "goto " \o instr.label
    ELSE IF instr.op = "cjump" THEN "if goto " \o instr.label
    ELSE IF instr.op = "binop" THEN "cond"
    ELSE IF instr.op = "assign"
    THEN IF isdigit(instr.src1) THEN "-" ELSE instr.dest
    ELSE instr.op

Layout(instructions) ==
    SelectSeq([i \in 1..Len(instructions) |-> Mark(instructions[i])],
              LAMBDA m : m # "-")

\* the layout the body of a program of the "loop" family must have: an
\* inner loop takes the labels L3 and L4
BodyLayout(kind) ==
    IF kind = "assign" THEN <<"s">>
    ELSE IF kind = "block" THEN <<"s", "s">>
    ELSE IF kind = "empty" THEN <<>>
    ELSE <<"L3:", "cond", "if goto L4", "s", "goto L3", "L4:">>

\* the layout of the whole program: the loop takes the labels L1 and L2
LoopLayout(in) ==
    <<"main:", "i", "s", "u">>
    \o (IF in.init THEN <<"i">> ELSE <<>>)
    \o <<"L1:">>
    \o (IF in.cond THEN <<"cond", "if goto L2">> ELSE <<>>)
    \o BodyLayout(in.body)
    \o (IF in.update THEN <<"u">> ELSE <<>>)
    \o <<"goto L1", "L2:", "return">>

\* C23: a WhileStmt is generated as start label, condition, cjump on the
\* condition to the end label, body, jump to the start label, end label; a
\* ForStmt as init, start label, condition and cjump to the end label (when
\* there is a condition), body, update, jump to the start label, end label:
\* the update comes after the whole body and before the back jump.
C23_LoopLayout ==
    (Generated /\ input.family = "loop") =>
        /\ Layout(tac) = LoopLayout(input)
        /\ \A k \in 1..Len(tac) :
               tac[k].op = "cjump" =>
                   tac[k - 1].op = "binop" /\ tac[k].dest = tac[k - 1].dest

C23_Witness ==
    /\ pc = "ir"
    /\ input.family = "loop" /\ input.stmt = "for"
    /\ input.init /\ input.cond /\ input.update /\ input.body = "block"
    /\ Layout(tac) = <<"main:", "i", "s", "u", "i", "L1:", "cond",
                       "if goto L2", "s", "s", "u", "goto L1", "L2:",
                       "return">>

\* the integer a binop of two literals stands for: / is the integer
\* division, % the remainder, a comparison or a connective gives 1 or 0
IntegerResult(op, l, r) ==
    IF op = "+" THEN l + r
    ELSE IF op = "-" THEN l - r
    ELSE IF op = "*" THEN l * r
    ELSE IF op = "/" THEN IF r = 0 THEN 0 ELSE l \div r
    ELSE IF op = "%" THEN IF r = 0 THEN 0 ELSE l % r
    ELSE IF \/ op = "<" /\ l < r
            \/ op = ">" /\ l > r
            \/ op = "<=" /\ l <= r
            \/ op = ">=" /\ l >= r
            \/ op = "==" /\ l = r
            \/ op = "!=" /\ l # r
            \/ op = "&&" /\ l # 0 /\ r # 0
            \/ op = "||" /\ (l # 0 \/ r # 0)
    THEN 1
    ELSE 0

\* what constant_folding is to put in the place of an instruction
Folded(instr) ==
    IF /\ instr.op = "binop"
       /\ isdigit(instr.src1)
       /\ isdigit(Split1(instr.src2)[2])
    THEN TACInstruction("assign", instr.dest,
             IntToStr(IntegerResult(Split1(instr.src2)[1],
                                    StrToInt(instr.src1),
                                    StrToInt(Split1(instr.src2)[2]))),
             None, None)
    ELSE IF instr.op = "unop" /\ instr.src1 = "-" /\ isdigit(instr.src2)
    THEN TACInstruction("assign", instr.dest,
                        IntToStr(0 - StrToInt(instr.src2)), None, None)
    ELSE IF instr.op = "unop" /\ instr.src1 = "!" /\ isdigit(instr.src2)
    THEN TACInstruction("assign", instr.dest,
                        IF StrToInt(instr.src2) = 0 THEN "1" ELSE "0",
                        None, None)
    ELSE instr

\* C24: constant_folding puts `assign dest = v` in the place of every binop
\* of two literals (v its integer result) and of every unop - or ! of a
\* literal, and leaves every other instruction, the length and the order of
\* the list as they were.
C24_Folds ==
    pc = "folded" =>
        /\ ~pass.raised
        /\ Len(pass.instructions) = Len(pass.before)
        /\ \A i \in 1..Len(pass.before) :
               pass.instructions[i] = Folded(pass.before[i])

\* the names of the calls to print and read of a list, in its order
IOCalls(instructions) ==
    LET calls == SelectSeq(instructions,
                     LAMBDA i : i.op = "call" /\ i.src2 \in {"print", "read"})
    IN  [k \in 1..Len(calls) |-> calls[k].src2]

\* every call to print or read has its param instructions next before it
ParamsBeforeCalls(instructions) ==
    \A k \in 1..Len(instructions) :
        LET i == instructions[k] IN
        (i.op = "call" /\ i.src2 \in {"print", "read"}) =>
            /\ k > Len(i.src1)
            /\ \A a \in 1..Len(i.src1) :
                   instructions[k - a].op = "param"

\* C26: optimize keeps the side-effecting calls: every call to print or read
\* of the generated TAC is in the optimized TAC, in the same relative order,
\* with its param instructions.
C26_CallsKept ==
    Optimized =>
        /\ IOCalls(opt.instructions) = IOCalls(tac)
        /\ ParamsBeforeCalls(opt.instructions)
        /\ CountOp(opt.instructions, "param") = CountOp(tac, "param")

\* the literal the most recent assignment to name before instruction i
\* binds it to, None when there is no such assignment or it binds no literal
RECURSIVE ValueBefore(_, _, _)
ValueBefore(instructions, i, name) ==
    LET defs == {j \in 1..(i - 1) : instructions[j].dest = name} IN
    IF defs = {} THEN None
    ELSE LET j == CHOOSE d \in defs : \A e \in defs : e <= d IN
         IF instructions[j].op # "assign" THEN None
         ELSE IF isdigit(instructions[j].src1) THEN instructions[j].src1
         ELSE ValueBefore(instructions, j, instructions[j].src1)

\* C27: on straight-line code constant_propagation replaces an operand v by
\* a literal N only if the most recent assignment to v before the
\* instruction binds v to N.
C27_Sound ==
    pc = "propagated" =>
        \A i \in 1..Len(pass.before) :
            LET b == pass.before[i]
                a == pass.instructions[i]
            IN  /\ (b.op \in {"assign", "binop"} /\ a.src1 # b.src1) =>
                       a.src1 = ValueBefore(pass.before, i, b.src1)
                /\ (b.op = "binop" /\ a.src2 # b.src2) =>
                       Split1(a.src2)[2] =
                           ValueBefore(pass.before, i, Split1(b.src2)[2])

\* the two instructions compute the same expression
SameExpression(i, j) == i.op = j.op /\ i.src1 = j.src1 /\ i.src2 = j.src2

\* the names the pass has renamed: the dests it has changed
Renamed(before, after) ==
    {before[k].dest : k \in {n \in 1..Len(before) :
                                after[n].dest # before[n].dest}}

\* C28: common_subexpression_elimination gives two instructions the same
\* dest only if they computed the same expression (or had the same dest
\* before), and alters an operand only if it is a renamed name as a whole.
C28_SameNodeOnly ==
    pc = "cse" =>
        LET before == pass.before
            after == pass.instructions
        IN  /\ \A i, j \in 1..Len(before) :
                   (after[i].dest # None /\ after[i].dest = after[j].dest) =>
                       \/ before[i].dest = before[j].dest
                       \/ SameExpression(before[i], before[j])
            /\ \A i \in 1..Len(before) :
                   /\ after[i].src1 # before[i].src1 =>
                          before[i].src1 \in Renamed(before, after)
                   /\ after[i].src2 # before[i].src2 =>
                          \E u \in Renamed(before, after) :
                              \/ before[i].src2 = u
                              \/ /\ before[i].op = "binop"
                                 /\ Split1(before[i].src2)[2] = u

\* the indexes of the lines that start with the mnemonic
LinesOf(lines, mnemonic) ==
    SelectSeq([k \in 1..Len(lines) |-> k],
              LAMBDA k : /\ Len(lines[k]) > Len(mnemonic)
                         /\ SubSeq(lines[k], 1, Len(mnemonic) + 1)
                                = mnemonic \o " ")

\* C30: in the assembly generated from the TAC of a call with n arguments
\* each argument is pushed exactly once: n PUSH lines, in argument order,
\* stand before the CALL line, and no other PUSH line is emitted.
C30_PushedOnce ==
    (pc = "pass" /\ pass.name = "codegen") =>
        LET calls == SelectSeq(pass.instructions, LAMBDA i : i.op = "call")
            at == LinesOf(pass.asm, "CALL")
        IN  /\ Len(at) = Len(calls)
            /\ \A c \in 1..Len(calls) :
                   LET args == calls[c].src1
                       n == Len(args)
                   IN  /\ at[c] > n
                       /\ \A a \in 1..n :
                              pass.asm[at[c] - n + a - 1] = "PUSH " \o args[a]
            /\ Len(LinesOf(pass.asm, "PUSH")) =
                   Cardinality({<<c, a>> \in
                                    (1..Len(calls)) \X (1..Len(pass.asm)) :
                                        a <= Len(calls[c].src1)})

(***************************************************************************)
(* Properties of the lexer's positions.                                    *)
(***************************************************************************)
RECURSIVE TextBefore(_, _)
\* the text that precedes the i-th match
TextBefore(matches, i) ==
    IF i <= 1 THEN "" ELSE TextBefore(matches, i - 1) \o matches[i - 1]

\* the position of the last line break of text, 0 when it has none
LastNewline(text) ==
    LET at == {p \in 1..Len(text) : CharAt(text, p) = "\n"}
    IN  IF at = {} THEN 0 ELSE CHOOSE p \in at : \A q \in at : q <= p

\* the matches that are tokens, as their indexes in the list of matches
TokenIndexes(matches) ==
    SelectSeq([i \in 1..Len(matches) |-> i],
              LAMBDA i : TokenKind(matches[i]) # None)

\* C22: every token of a tokenized text carries the line of its first
\* character (1 + the line breaks before it) and its column (its 1-based
\* offset from the start of that line), also after an indentation or a
\* block comment that spans lines.
C22_LineCol ==
    pc = "lexed" =>
        LET matches == Matches(input)
            at == TokenIndexes(matches)
        IN  \A k \in 1..Len(at) :
                LET before == TextBefore(matches, at[k])
                IN  /\ tokens[k].value = matches[at[k]]
                    /\ tokens[k].lineno = 1 + CountNewlines(before)
                    /\ tokens[k].col = Len(before) - LastNewline(before) + 1

====
